---------------------------- MODULE Spec2Model ----------------------------
(***************************************************************************)
(* A model of the QA report pipeline of Inspectra_Reporting:               *)
(*   QA_Report_Helper/data_processor.py   (DataProcessor)                  *)
(*   QA_Report_Helper/data_validator.py   (DataValidator)                  *)
(*   QA_Report_Helper/report_generator.py (ReportGenerator)                *)
(*   "3_Create QA Report.py"              (QAReportApp, the Streamlit page)*)
(*                                                                         *)
(* Python values are tagged records: None, str (a sequence of one-letter   *)
(* strings, so that strip/lower/startswith are computed and not assumed),  *)
(* int and date.  A dict is a function whose DOMAIN is the set of keys a   *)
(* record carries; a Counter/defaultdict, whose iteration order the code   *)
(* depends on, is a sequence of <<key, value>> pairs in insertion order.   *)
(***************************************************************************)
EXTENDS Integers, Sequences, FiniteSets, TLC

(***************************************************************************)
(* Python values                                                           *)
(***************************************************************************)
None == [t |-> "None"]
Str(s) == [t |-> "str", s |-> s]
Date(y, m, d) == [t |-> "date", y |-> y, m |-> m, d |-> d]
IsStr(v) == v.t = "str"
IsDate(v) == v.t = "date"

\* Text used by the program and by the sample data, letter by letter.
Empty == <<>>
T_Qualified == <<"Q","u","a","l","i","f","i","e","d">>
T_Disqualified == <<"D","i","s","q","u","a","l","i","f","i","e","d">>
T_qualified == <<"q","u","a","l","i","f","i","e","d">>
T_disqualified == <<"d","i","s","q","u","a","l","i","f","i","e","d">>
T_Blank == <<"(","B","l","a","n","k",")">>
T_GrandTotal == <<"G","r","a","n","d"," ","T","o","t","a","l">>
T_Dash == <<"-">>

Upper == <<"A","B","C","D","E","F","G","H","I","J","K","L","M",
           "N","O","P","Q","R","S","T","U","V","W","X","Y","Z">>
Lower == <<"a","b","c","d","e","f","g","h","i","j","k","l","m",
           "n","o","p","q","r","s","t","u","v","w","x","y","z">>
Digits == <<"0","1","2","3","4","5","6","7","8","9">>
Whitespace == {" ", "\t", "\n", "\r"}

Range(f) == {f[i] : i \in DOMAIN f}
IndexOf(seq, c) == CHOOSE i \in DOMAIN seq : seq[i] = c
IsUpper(c) == c \in Range(Upper)
IsLower(c) == c \in Range(Lower)
IsDigit(c) == c \in Range(Digits)
IsAlpha(c) == IsUpper(c) \/ IsLower(c)
LowerChar(c) == IF IsUpper(c) THEN Lower[IndexOf(Upper, c)] ELSE c
UpperChar(c) == IF IsLower(c) THEN Upper[IndexOf(Lower, c)] ELSE c
DigitVal(c) == IndexOf(Digits, c) - 1

\* str.lower()
lower(s) == [i \in DOMAIN s |-> LowerChar(s[i])]

\* str.strip(): drop leading and trailing whitespace
RECURSIVE lstrip(_)
lstrip(s) == IF s # <<>> /\ Head(s) \in Whitespace THEN lstrip(Tail(s)) ELSE s
RECURSIVE rstrip(_)
rstrip(s) ==
  IF s # <<>> /\ s[Len(s)] \in Whitespace THEN rstrip(SubSeq(s, 1, Len(s) - 1)) ELSE s
strip(s) == rstrip(lstrip(s))

\* str.startswith(prefix)
startswith(s, p) == Len(p) <= Len(s) /\ SubSeq(s, 1, Len(p)) = p

\* str.title(): a letter that follows a non-letter is upper-cased, any other lower-cased
title(s) ==
  [i \in DOMAIN s |->
     IF i = 1 \/ ~IsAlpha(s[i - 1]) THEN UpperChar(s[i]) ELSE LowerChar(s[i])]

\* str(n) of a natural number
RECURSIVE IntToStr(_)
IntToStr(n) ==
  IF n < 10 THEN <<Digits[n + 1]>> ELSE IntToStr(n \div 10) \o <<Digits[(n % 10) + 1]>>

\* str(value) for the values that reach a str() call
DateIso(v) ==
  LET Pad(n, w) == LET x == IntToStr(n) IN [i \in 1..(w - Len(x)) |-> "0"] \o x
  IN Pad(v.y, 4) \o <<"-">> \o Pad(v.m, 2) \o <<"-">> \o Pad(v.d, 2)
str(v) ==
  CASE v.t = "str" -> v.s
    [] v.t = "None" -> <<"N","o","n","e">>
    [] v.t = "int" -> IntToStr(v.n)
    [] v.t = "date" -> DateIso(v)

\* dict.get(key, default)
GetD(r, k, default) == IF k \in DOMAIN r THEN r[k] ELSE default
Get(r, k) == GetD(r, k, None)
\* r with r[k] = v (item assignment on a dict)
SetItem(r, k, v) == [x \in (DOMAIN r) \cup {k} |-> IF x = k THEN v ELSE r[x]]

\* Insertion-ordered dicts (Counter, defaultdict) as sequences of <<key, value>>
DictHas(d, k) == \E i \in DOMAIN d : d[i][1] = k
DictPos(d, k) == CHOOSE i \in DOMAIN d : d[i][1] = k
DictGet(d, k) == d[DictPos(d, k)][2]
DictSet(d, k, v) ==
  IF DictHas(d, k) THEN [d EXCEPT ![DictPos(d, k)] = <<k, v>>] ELSE Append(d, <<k, v>>)
DictKeys(d) == {d[i][1] : i \in DOMAIN d}

(***************************************************************************)
(* config.py                                                               *)
(***************************************************************************)
ACCEPTED_LEAD_STATUS == <<Str(T_Qualified), Str(T_Disqualified)>>

(***************************************************************************)
(* DataProcessor.normalize                                                 *)
(***************************************************************************)
normalize(value) == IF value # None THEN lower(strip(str(value))) ELSE Empty


(***************************************************************************)
(* Calendar arithmetic of datetime.date (proleptic Gregorian, years 1-9999)*)
(***************************************************************************)
IsLeap(y) == (y % 4 = 0) /\ ((y % 100 # 0) \/ (y % 400 = 0))
DaysInMonth(y, m) ==
  IF m = 2 THEN (IF IsLeap(y) THEN 29 ELSE 28)
  ELSE IF m \in {4, 6, 9, 11} THEN 30 ELSE 31
\* date(y, m, d) raises ValueError unless this holds
ValidYMD(y, m, d) ==
  /\ y >= 1 /\ y <= 9999
  /\ m >= 1 /\ m <= 12
  /\ d >= 1 /\ d <= DaysInMonth(y, m)

\* Days between 1970-01-01 and y-m-d, and back
DaysFromCivil(y, m, d) ==
  LET yy == IF m <= 2 THEN y - 1 ELSE y
      era == yy \div 400
      yoe == yy - era * 400
      mp == IF m > 2 THEN m - 3 ELSE m + 9
      doy == (153 * mp + 2) \div 5 + d - 1
      doe == yoe * 365 + yoe \div 4 - yoe \div 100 + doy
  IN era * 146097 + doe - 719468
CivilFromDays(z0) ==
  LET z == z0 + 719468
      era == z \div 146097
      doe == z - era * 146097
      yoe == (doe - doe \div 1460 + doe \div 36524 - doe \div 146096) \div 365
      doy == doe - (365 * yoe + yoe \div 4 - yoe \div 100)
      mp == (5 * doy + 2) \div 153
      d == doy - (153 * mp + 2) \div 5 + 1
      m == IF mp < 10 THEN mp + 3 ELSE mp - 9
      y == yoe + era * 400 + (IF m <= 2 THEN 1 ELSE 0)
  IN [y |-> y, m |-> m, d |-> d]

\* date comparison (d1 < d2, d1 <= d2)
DateLT(a, b) ==
  \/ a.y < b.y
  \/ a.y = b.y /\ a.m < b.m
  \/ a.y = b.y /\ a.m = b.m /\ a.d < b.d
DateLE(a, b) == a = b \/ DateLT(a, b)

(***************************************************************************)
(* datetime.strptime for the directives parse_date uses.  A format is a    *)
(* sequence of directives ("%Y", "%m", ...) and literal characters.  Each  *)
(* directive offers its readings at a position in the order of the         *)
(* alternatives of the library's regular expression; the first reading the *)
(* rest of the format can follow is taken (a prefix match), and text left  *)
(* over after the match is an error.                                       *)
(***************************************************************************)
MonthAbbr ==
  << <<"j","a","n">>, <<"f","e","b">>, <<"m","a","r">>, <<"a","p","r">>,
     <<"m","a","y">>, <<"j","u","n">>, <<"j","u","l">>, <<"a","u","g">>,
     <<"s","e","p">>, <<"o","c","t">>, <<"n","o","v">>, <<"d","e","c">> >>
MonthFull ==
  << <<"j","a","n","u","a","r","y">>, <<"f","e","b","r","u","a","r","y">>,
     <<"m","a","r","c","h">>, <<"a","p","r","i","l">>, <<"m","a","y">>,
     <<"j","u","n","e">>, <<"j","u","l","y">>, <<"a","u","g","u","s","t">>,
     <<"s","e","p","t","e","m","b","e","r">>, <<"o","c","t","o","b","e","r">>,
     <<"n","o","v","e","m","b","e","r">>, <<"d","e","c","e","m","b","e","r">> >>

DigitAt(s, p) == p <= Len(s) /\ IsDigit(s[p])
Num2(s, p) == 10 * DigitVal(s[p]) + DigitVal(s[p + 1])
\* The readings <<value, next position>> of a one- or two-digit field whose
\* two-digit form must satisfy Two(a, b) and whose one-digit form One(a)
NumReadings(s, p, Two(_, _), One(_)) ==
  (IF DigitAt(s, p) /\ DigitAt(s, p + 1) /\ Two(DigitVal(s[p]), DigitVal(s[p + 1]))
     THEN << <<Num2(s, p), p + 2>> >> ELSE <<>>)
  \o
  (IF DigitAt(s, p) /\ One(DigitVal(s[p]))
     THEN << <<DigitVal(s[p]), p + 1>> >> ELSE <<>>)
NameReadings(s, p, names) ==
  LET hit == {k \in DOMAIN names :
                /\ p + Len(names[k]) - 1 <= Len(s)
                /\ lower(SubSeq(s, p, p + Len(names[k]) - 1)) = names[k]}
  IN IF hit = {} THEN <<>>
     ELSE LET k == CHOOSE x \in hit : \A z \in hit : Len(names[x]) >= Len(names[z])
          IN << <<k, p + Len(names[k])>> >>
RECURSIVE SkipSpace(_, _)
SkipSpace(s, p) == IF p <= Len(s) /\ s[p] \in Whitespace THEN SkipSpace(s, p + 1) ELSE p

Readings(tok, s, p) ==
  CASE tok = "%d" ->
         NumReadings(s, p,
           LAMBDA a, b : (a = 3 /\ b <= 1) \/ a \in {1, 2} \/ (a = 0 /\ b >= 1),
           LAMBDA a : a >= 1)
         \o (IF p + 1 <= Len(s) /\ s[p] = " " /\ IsDigit(s[p + 1]) /\ DigitVal(s[p + 1]) >= 1
               THEN << <<DigitVal(s[p + 1]), p + 2>> >> ELSE <<>>)
    [] tok = "%m" ->
         NumReadings(s, p,
           LAMBDA a, b : (a = 1 /\ b <= 2) \/ (a = 0 /\ b >= 1),
           LAMBDA a : a >= 1)
    [] tok = "%H" ->
         NumReadings(s, p, LAMBDA a, b : (a = 2 /\ b <= 3) \/ a <= 1, LAMBDA a : TRUE)
    [] tok = "%M" ->
         NumReadings(s, p, LAMBDA a, b : a <= 5, LAMBDA a : TRUE)
    [] tok = "%S" ->
         NumReadings(s, p, LAMBDA a, b : (a = 6 /\ b <= 1) \/ a <= 5, LAMBDA a : TRUE)
    [] tok = "%y" ->
         IF DigitAt(s, p) /\ DigitAt(s, p + 1) THEN << <<Num2(s, p), p + 2>> >> ELSE <<>>
    [] tok = "%Y" ->
         IF \A k \in 0..3 : DigitAt(s, p + k)
           THEN << <<100 * Num2(s, p) + Num2(s, p + 2), p + 4>> >> ELSE <<>>
    [] tok = "%b" -> NameReadings(s, p, MonthAbbr)
    [] tok = "%B" -> NameReadings(s, p, MonthFull)
    [] tok = " " ->
         IF p <= Len(s) /\ s[p] \in Whitespace THEN << <<0, SkipSpace(s, p)>> >> ELSE <<>>
    [] OTHER ->
         IF p <= Len(s) /\ s[p] = tok THEN << <<0, p + 1>> >> ELSE <<>>

NoMatch == [ok |-> FALSE]
\* The fields of the first match of fmt[i..] at s[p..], or NoMatch
RECURSIVE MatchFrom(_, _, _, _, _)
RECURSIVE FirstReading(_, _, _, _, _, _)
MatchFrom(fmt, i, s, p, acc) ==
  IF i > Len(fmt) THEN [ok |-> TRUE, f |-> acc, end |-> p]
  ELSE FirstReading(Readings(fmt[i], s, p), 1, fmt, i, s, acc)
RECURSIVE MatchOrNext(_, _, _, _, _, _, _)
FirstReading(rs, k, fmt, i, s, acc) ==
  IF k > Len(rs) THEN NoMatch
  ELSE MatchOrNext(MatchFrom(fmt, i + 1, s, rs[k][2], SetItem(acc, fmt[i], rs[k][1])),
                   rs, k, fmt, i, s, acc)
\* The match r that follows reading k where there is one, else the next reading
MatchOrNext(r, rs, k, fmt, i, s, acc) ==
  IF r.ok THEN r ELSE FirstReading(rs, k + 1, fmt, i, s, acc)

\* datetime.strptime(s, fmt).date(): a date, or None where strptime raises ValueError
\* The date of the fields a match found; None where the library raises
\* ValueError (no such day, or a second of 60 or 61)
year_of(f) ==
  IF "%Y" \in DOMAIN f THEN f["%Y"]
  ELSE IF "%y" \in DOMAIN f
         THEN (IF f["%y"] <= 68 THEN 2000 + f["%y"] ELSE 1900 + f["%y"])
         ELSE 1900
month_of(f) ==
  IF "%m" \in DOMAIN f THEN f["%m"]
  ELSE IF "%b" \in DOMAIN f THEN f["%b"]
  ELSE IF "%B" \in DOMAIN f THEN f["%B"] ELSE 1
checked_date(year, month, day, second) ==
  IF ValidYMD(year, month, day) /\ second <= 59 THEN Date(year, month, day) ELSE None
date_of_fields(f) ==
  checked_date(year_of(f), month_of(f), GetD(f, "%d", 1), GetD(f, "%S", 0))
date_of_match(r, s) ==
  IF ~r.ok \/ r.end # Len(s) + 1 THEN None ELSE date_of_fields(r.f)
strptime_date(s, fmt) == date_of_match(MatchFrom(fmt, 1, s, 1, <<>>), s)

(***************************************************************************)
(* DataProcessor.parse_date                                                *)
(***************************************************************************)
\* date_formats with the month-first formats of lines 209-212 moved before the
\* day-first ones of lines 205-208
date_formats_month_first ==
  << <<"%Y","-","%m","-","%d"," ","%H",":","%M",":","%S">>,
     <<"%Y","-","%m","-","%d">>,
     <<"%d","-","%b","-","%y">>,
     <<"%d","-","%B","-","%y">>,
     <<"%d","-","%b","-","%Y">>,
     <<"%d","-","%B","-","%Y">>,
     <<"%d","/","%b","/","%y">>,
     <<"%d","/","%B","/","%y">>,
     <<"%d","/","%b","/","%Y">>,
     <<"%d","/","%B","/","%Y">>,
     <<"%d",".","%b",".","%y">>,
     <<"%d",".","%B",".","%y">>,
     <<"%m","/","%d","/","%Y">>,
     <<"%m","-","%d","-","%Y">>,
     <<"%m","/","%d","/","%y">>,
     <<"%m","-","%d","-","%y">>,
     <<"%d","-","%m","-","%Y">>,
     <<"%d","/","%m","/","%Y">>,
     <<"%d","-","%m","-","%y">>,
     <<"%d","/","%m","/","%y">> >>

date_formats ==
  << <<"%Y","-","%m","-","%d"," ","%H",":","%M",":","%S">>,
     <<"%Y","-","%m","-","%d">>,
     <<"%d","-","%b","-","%y">>,
     <<"%d","-","%B","-","%y">>,
     <<"%d","-","%b","-","%Y">>,
     <<"%d","-","%B","-","%Y">>,
     <<"%d","/","%b","/","%y">>,
     <<"%d","/","%B","/","%y">>,
     <<"%d","/","%b","/","%Y">>,
     <<"%d","/","%B","/","%Y">>,
     <<"%d",".","%b",".","%y">>,
     <<"%d",".","%B",".","%y">>,
     <<"%d","-","%m","-","%Y">>,
     <<"%d","/","%m","/","%Y">>,
     <<"%d","-","%m","-","%y">>,
     <<"%d","/","%m","/","%y">>,
     <<"%m","/","%d","/","%Y">>,
     <<"%m","-","%d","-","%Y">>,
     <<"%m","/","%d","/","%y">>,
     <<"%m","-","%d","-","%y">> >>

\* The first format of date_formats[k..] that parses s, or None
RECURSIVE TryFormats(_, _)
RECURSIVE ParsedOrNext(_, _, _)
TryFormats(s, k) ==
  IF k > Len(date_formats) THEN None
  ELSE ParsedOrNext(strptime_date(s, date_formats[k]), s, k)
ParsedOrNext(d, s, k) == IF d # None THEN d ELSE TryFormats(s, k + 1)

\* s.replace(c, "")
RECURSIVE Without(_, _)
Without(s, c) ==
  IF s = <<>> THEN <<>>
  ELSE (IF Head(s) = c THEN <<>> ELSE <<Head(s)>>) \o Without(Tail(s), c)
isdigit(s) == s # <<>> /\ \A i \in DOMAIN s : IsDigit(s[i])
RECURSIVE DigitsVal(_)
DigitsVal(s) == IF s = <<>> THEN 0 ELSE 10 * DigitsVal(SubSeq(s, 1, Len(s) - 1)) + DigitVal(s[Len(s)])

\* float(s) for a text of digits, "." and "-" only: [ok, neg, whole, frac] with
\* whole the digits before the point (leading zeros dropped) and frac telling
\* whether a non-zero fraction follows it; ok is FALSE where float() raises
\* ValueError
RECURSIVE DropZeros(_)
DropZeros(s) == IF s # <<>> /\ Head(s) = "0" THEN DropZeros(Tail(s)) ELSE s
ParseFloat(s) ==
  LET neg == s # <<>> /\ Head(s) = "-"
      body == IF neg THEN Tail(s) ELSE s
      dots == {i \in DOMAIN body : body[i] = "."}
      dot == IF dots = {} THEN Len(body) + 1 ELSE CHOOSE i \in dots : TRUE
      whole == SubSeq(body, 1, dot - 1)
      frac == SubSeq(body, dot + 1, Len(body))
      ok == /\ Cardinality(dots) <= 1
            /\ \A i \in DOMAIN body : body[i] = "." \/ IsDigit(body[i])
            /\ Len(whole) + Len(frac) >= 1
  IN [ok |-> ok, neg |-> neg,
      whole |-> IF ok THEN DropZeros(whole) ELSE <<>>,
      frac |-> ok /\ \E i \in DOMAIN frac : frac[i] # "0"]

\* Lines 221-232: a text of digits read as a spreadsheet serial day number.
\* A serial of more than 7 digits lies outside the calendar (OverflowError).
\* date(1900, 1, 1) + timedelta(days): None outside the years 1..9999
date_from_1900(c) == IF c.y >= 1 /\ c.y <= 9999 THEN Date(c.y, c.m, c.d) ELSE None
\* floor(excel_date - 1) days, after the correction for serials over 59
\* serial_days without the correction of lines 225-226
serial_days_uncorrected(neg, n, frac) ==
  IF neg THEN -n - (IF frac THEN 1 ELSE 0) - 1 ELSE n - 1
serial_days(neg, n, frac) ==
  IF neg THEN -n - (IF frac THEN 1 ELSE 0) - 1
  ELSE IF n > 59 \/ (n = 59 /\ frac) THEN n - 2 ELSE n - 1
serial_date(f) ==
  IF ~f.ok \/ Len(f.whole) > 7 THEN None
  ELSE date_from_1900(
         CivilFromDays(DaysFromCivil(1900, 1, 1) + serial_days(f.neg, DigitsVal(f.whole), f.frac)))
excel_serial(s) ==
  IF ~isdigit(Without(Without(s, "."), "-")) THEN None ELSE serial_date(ParseFloat(s))

\* date_str.split(' ')[0]
first_word(date_str) ==
  SubSeq(date_str, 1,
    (CHOOSE i \in 1..(Len(date_str) + 1) :
       /\ i = Len(date_str) + 1 \/ date_str[i] = " "
       /\ \A j \in 1..(i - 1) : date_str[j] # " ") - 1)
\* Lines 183-189: a text with a space and a colon is first read by its date part
date_part(date_str) ==
  IF " " \in Range(date_str) /\ ":" \in Range(date_str)
    THEN strptime_date(first_word(date_str), <<"%Y","-","%m","-","%d">>)
    ELSE None
\* Lines 221-235: the serial number reading is the last resort
or_serial(byFormat, date_str) ==
  IF byFormat # None THEN byFormat ELSE excel_serial(date_str)
\* Lines 191-219: the formats are tried where the date part gave nothing
or_formats(early, date_str) ==
  IF early # None THEN early ELSE or_serial(TryFormats(date_str, 1), date_str)
parse_text(date_str) ==
  IF date_str = <<>> \/ lower(date_str) = <<"n","a","n">> THEN None
  ELSE or_formats(date_part(date_str), date_str)
parse_date(date_value) ==
  IF date_value = None THEN None
  ELSE IF IsDate(date_value) THEN date_value
  ELSE parse_text(strip(str(date_value)))

(***************************************************************************)
(* Objects.  A heap is a sequence of cells, an object's identity its index.*)
(* A dict cell holds the record's content, a list cell the identities of   *)
(* its items: two names for one object see each other's writes, a copy is  *)
(* a new cell.                                                             *)
(***************************************************************************)
DictCell(d) == [t |-> "dict", d |-> d]
ListCell(items) == [t |-> "list", items |-> items]
\* [heap, id]: the heap with a new cell, and the new cell's identity
Alloc(h, cell) == [heap |-> Append(h, cell), id |-> Len(h) + 1]
\* record.copy(): a new dict holding the same keys and values
copy(h, id) == Alloc(h, h[id])
\* obj[key] = value
store(h, id, key, value) == [h EXCEPT ![id] = DictCell(SetItem(h[id].d, key, value))]
\* The contents of the records of the list at id
Records(h, id) == [i \in DOMAIN h[id].items |-> h[h[id].items[i]].d]
\* A heap holding the records of contents and their list: [heap, id]
RECURSIVE AllocAll(_, _, _)
AllocAll(h, contents, items) ==
  IF contents = <<>> THEN Alloc(h, ListCell(items))
  ELSE LET a == Alloc(h, DictCell(Head(contents)))
       IN AllocAll(a.heap, Tail(contents), Append(items, a.id))

(***************************************************************************)
(* DataProcessor: filters, validation, cleaning                            *)
(***************************************************************************)
\* A date_column that is None or '' ("not self.date_column")
NoColumn == ""

\* "if parsed_date and parsed_date == target_date"
\* A wrong test: a date that does not parse passes for the target date
is_on_or_unparsed(parsed_date, target_date) == parsed_date = None \/ parsed_date = target_date
is_on(parsed_date, target_date) == parsed_date # None /\ parsed_date = target_date
\* A wrong test: the selected date itself is outside the window
is_before(parsed_date, mtd_start, selected_date) ==
  /\ parsed_date # None
  /\ DateLE(mtd_start, parsed_date)
  /\ DateLT(parsed_date, selected_date)
\* "if parsed_date and mtd_start <= parsed_date <= selected_date"
is_within(parsed_date, mtd_start, selected_date) ==
  /\ parsed_date # None
  /\ DateLE(mtd_start, parsed_date)
  /\ DateLE(parsed_date, selected_date)
\* "if parsed_date: if earliest_date is None or parsed_date < earliest_date"
earlier_of(parsed_date, earliest) ==
  IF parsed_date # None /\ (earliest = None \/ DateLT(parsed_date, earliest))
    THEN parsed_date ELSE earliest
first_day_of_month(d) == Date(d.y, d.m, 1)

filter_records_by_date(records, target_date, date_column) ==
  IF date_column = NoColumn THEN <<>>
  ELSE SelectSeq(records,
         LAMBDA record : is_on(parse_date(Get(record, date_column)), target_date))

\* Lines 290-297: the earliest parsed date of the records, None when none parses
RECURSIVE earliest_date_of(_, _, _)
earliest_date_of(records, date_column, earliest) ==
  IF records = <<>> THEN earliest
  ELSE earliest_date_of(Tail(records), date_column,
         earlier_of(parse_date(Get(Head(records), date_column)), earliest))

\* A wrong window: from the first day of the selected date's month
records_of_selected_month(records, earliest_date, selected_date, date_column) ==
  IF earliest_date = None THEN <<>>
  ELSE SelectSeq(records,
         LAMBDA record :
           is_within(parse_date(Get(record, date_column)),
                     first_day_of_month(selected_date), selected_date))
\* Lines 299-314: the records from the first day of the earliest month on
records_since(records, earliest_date, selected_date, date_column) ==
  IF earliest_date = None THEN <<>>
  ELSE SelectSeq(records,
         LAMBDA record :
           is_within(parse_date(Get(record, date_column)),
                     first_day_of_month(earliest_date), selected_date))
filter_records_mtd(records, selected_date, date_column) ==
  IF date_column = NoColumn THEN <<>>
  ELSE records_since(records, earliest_date_of(records, date_column, None),
                     selected_date, date_column)

\* The statuses validate_lead_status reports: normalized, non-empty, not accepted
unexpected_statuses(records) ==
  LET unique_statuses ==
        {normalize(Get(records[i], "Lead Status")) :
           i \in {j \in DOMAIN records : Get(records[j], "Lead Status") # None}}
      accepted_statuses == {normalize(ACCEPTED_LEAD_STATUS[i]) : i \in DOMAIN ACCEPTED_LEAD_STATUS}
  IN {status \in unique_statuses : status # Empty /\ status \notin accepted_statuses}
\* TRUE where validate_lead_status raises ValidationError
validate_lead_status(records) == unexpected_statuses(records) # {}

\* normalize_dq_reason without line 365's title()
normalize_dq_reason_untitled(dq_reason) ==
  IF dq_reason = None \/ dq_reason.s = Empty \/ strip(str(dq_reason)) \in {Empty, T_Dash}
    THEN dq_reason
    ELSE Str(strip(str(dq_reason)))

normalize_dq_reason(dq_reason) ==
  IF dq_reason = None \/ dq_reason.s = Empty \/ strip(str(dq_reason)) \in {Empty, T_Dash}
    THEN dq_reason
    ELSE Str(title(strip(str(dq_reason))))

CleanFields == <<"Lead Status", "Agent Name", "DQ Reason">>
\* Lines 408-419 for one field of one record
clean_field(cleaned_record, field) ==
  LET value == Get(cleaned_record, field)
  IN IF value = None \/ strip(str(value)) = Empty \/ strip(str(value)) = T_Dash
       THEN SetItem(cleaned_record, field,
                    IF field = "Lead Status" THEN Str(Empty) ELSE Str(T_Blank))
       ELSE LET cleaned_value == Str(strip(str(value)))
            IN SetItem(cleaned_record, field,
                       IF field = "DQ Reason" THEN normalize_dq_reason(cleaned_value)
                       ELSE cleaned_value)
clean_record(record) ==
  clean_field(clean_field(clean_field(record, CleanFields[1]), CleanFields[2]), CleanFields[3])

\* clean_data over the list at records: [heap, id] with id the new list.  Each
\* record is copied, and the copy's fields are written
RECURSIVE clean_loop(_, _, _)
clean_loop(h, todo, cleaned_records) ==
  IF todo = <<>> THEN Alloc(h, ListCell(cleaned_records))
  ELSE LET c == copy(h, Head(todo))
           h1 == [c.heap EXCEPT ![c.id] = DictCell(clean_record(c.heap[c.id].d))]
       IN clean_loop(h1, Tail(todo), Append(cleaned_records, c.id))
clean_data(h, records) == clean_loop(h, h[records].items, <<>>)

(***************************************************************************)
(* difflib.get_close_matches (SequenceMatcher.ratio, no junk)              *)
(***************************************************************************)
\* Length of the common run of a[i..ahi] and b[j..bhi]
RECURSIVE RunLen(_, _, _, _, _, _)
RunLen(a, b, i, j, ahi, bhi) ==
  IF i <= ahi /\ j <= bhi /\ a[i] = b[j] THEN 1 + RunLen(a, b, i + 1, j + 1, ahi, bhi) ELSE 0
\* find_longest_match: the longest block, earliest in a, then earliest in b
find_longest_match(a, b, alo, ahi, blo, bhi) ==
  LET cand == {<<i, j>> \in (alo..ahi) \X (blo..bhi) : a[i] = b[j]}
      len(c) == RunLen(a, b, c[1], c[2], ahi, bhi)
  IN IF cand = {} THEN <<alo, blo, 0>>
     ELSE LET best == CHOOSE c \in cand :
                        \A o \in cand :
                          \/ len(c) > len(o)
                          \/ len(c) = len(o) /\ c[1] < o[1]
                          \/ len(c) = len(o) /\ c[1] = o[1] /\ c[2] <= o[2]
          IN <<best[1], best[2], len(best)>>
\* Sum of the sizes of get_matching_blocks over a[alo..ahi], b[blo..bhi]
RECURSIVE matches(_, _, _, _, _, _)
matches(a, b, alo, ahi, blo, bhi) ==
  IF alo > ahi \/ blo > bhi THEN 0
  ELSE LET m == find_longest_match(a, b, alo, ahi, blo, bhi)
       IN IF m[3] = 0 THEN 0
          ELSE matches(a, b, alo, m[1] - 1, blo, m[2] - 1) + m[3]
               + matches(a, b, m[1] + m[3], ahi, m[2] + m[3], bhi)
\* ratio() = 2.0 * matches / (len(a) + len(b)) as the pair <<2 * matches, length>>
ratio(a, b) ==
  IF Len(a) + Len(b) = 0 THEN <<1, 1>>
  ELSE <<2 * matches(a, b, 1, Len(a), 1, Len(b)), Len(a) + Len(b)>>

\* Characters in code point order, for the comparison of texts
Ascii == <<"\t", "\n", "\r", " ", "%", "(", ")", "-", ".", "/">> \o Digits \o <<":">>
         \o Upper \o <<"_">> \o Lower
RECURSIVE TextLT(_, _)
TextLT(x, y) ==
  IF y = <<>> THEN FALSE
  ELSE IF x = <<>> THEN TRUE
  ELSE IF Head(x) = Head(y) THEN TextLT(Tail(x), Tail(y))
  ELSE IndexOf(Ascii, Head(x)) < IndexOf(Ascii, Head(y))

\* get_close_matches(word, possibilities, n=2, cutoff=0.6) over two possibilities:
\* those scoring at least 0.6, best score first, equal scores larger text first
get_close_matches(word, possibilities) ==
  LET score(x) == ratio(x.s, word)
      good == SelectSeq(possibilities,
                LAMBDA x : 10 * score(x)[1] >= 6 * score(x)[2])
      Before(x, y) ==
        LET sx == score(x)
            sy == score(y)
        IN \/ sx[1] * sy[2] > sy[1] * sx[2]
           \/ sx[1] * sy[2] = sy[1] * sx[2] /\ TextLT(y.s, x.s)
  IN IF Len(good) = 2 /\ Before(good[2], good[1]) THEN <<good[2], good[1]>> ELSE good

(***************************************************************************)
(* DataValidator                                                           *)
(***************************************************************************)
qualified_patterns ==
  <<T_qualified, <<"q","u","a","l","i","f","y">>, <<"q","u","a","l">>, <<"q">> >>
\* Patterns that take every value that starts with d
disqualified_patterns_d ==
  <<T_disqualified, <<"d","i","s","q","u","a","l","i","f","y">>,
    <<"d","i","s","q","u","a","l">>, <<"d">>, <<"d","i","s">> >>
disqualified_patterns ==
  <<T_disqualified, <<"d","i","s","q","u","a","l","i","f","y">>,
    <<"d","i","s","q","u","a","l">>, <<"d","q">>, <<"d","i","s">> >>
any_pattern(patterns, status_lower) ==
  \E i \in DOMAIN patterns :
    patterns[i] = status_lower \/ startswith(status_lower, patterns[i])

normalize_lead_status(status_text) ==
  IF \/ status_text = None
     \/ IsStr(status_text) /\ status_text.s = Empty
     \/ status_text.t = "int" /\ status_text.n = 0
     \/ strip(str(status_text)) = Empty
    THEN status_text
  ELSE LET status_lower == strip(lower(str(status_text)))
       IN IF any_pattern(qualified_patterns, status_lower) THEN Str(T_Qualified)
          ELSE IF any_pattern(disqualified_patterns, status_lower) THEN Str(T_Disqualified)
          ELSE status_text

\* A wrong Counter: the statuses counted whatever their case
RECURSIVE status_counts_lowered(_, _)
status_counts_lowered(records, counts) ==
  IF records = <<>> THEN counts
  ELSE LET status == Get(Head(records), "Lead Status")
       IN status_counts_lowered(Tail(records),
            IF status # None
              THEN DictSet(counts, Str(lower(status.s)),
                     (IF DictHas(counts, Str(lower(status.s)))
                        THEN DictGet(counts, Str(lower(status.s))) ELSE 0) + 1)
              ELSE counts)

\* Lines 66-70: the Counter of the Lead Status values that are not None
RECURSIVE status_counts_of(_, _)
status_counts_of(records, counts) ==
  IF records = <<>> THEN counts
  ELSE LET status == Get(Head(records), "Lead Status")
       IN status_counts_of(Tail(records),
            IF status # None
              THEN DictSet(counts, status,
                           (IF DictHas(counts, status) THEN DictGet(counts, status) ELSE 0) + 1)
              ELSE counts)

\* The issue find_lead_status_issues builds for an invalid status.  valid_order
\* is list(valid_statuses): the accepted statuses in the order the set yields
issue_of(status, count, valid_order) ==
  LET normalized == normalize_lead_status(status)
  IN [original |-> status,
      count |-> count,
      auto_suggestion |-> IF normalized # status /\ normalized \in Range(ACCEPTED_LEAD_STATUS)
                            THEN normalized ELSE None,
      fuzzy_matches |-> get_close_matches(str(status), valid_order),
      valid_options |-> valid_order]

\* find_lead_status_issues: [issues, auto_suggestions]
find_lead_status_issues(records, valid_order) ==
  LET status_counts == status_counts_of(records, <<>>)
      invalid == SelectSeq(status_counts,
                   LAMBDA kv : kv[1] \notin Range(ACCEPTED_LEAD_STATUS))
      issues == [i \in DOMAIN invalid |-> issue_of(invalid[i][1], invalid[i][2], valid_order)]
      suggested == SelectSeq(issues, LAMBDA issue : issue.auto_suggestion # None)
  IN [issues |-> issues,
      auto_suggestions |-> [i \in DOMAIN suggested |->
                              <<suggested[i].original, suggested[i].auto_suggestion>>]]

\* apply_corrections over the list at records: [heap, id, count].  corrections
\* is a dict as <<key, value>> pairs; an empty one returns the list it was given
RECURSIVE correct_loop_counting_all(_, _, _, _, _)
RECURSIVE correct_loop_normalized(_, _, _, _, _)
RECURSIVE correct_loop(_, _, _, _, _)
\* A wrong loop: every record counted as corrected
correct_loop_counting_all(h, todo, corrections, corrected_records, correction_count) ==
  IF todo = <<>>
    THEN LET a == Alloc(h, ListCell(corrected_records))
         IN [heap |-> a.heap, id |-> a.id, count |-> correction_count]
  ELSE LET c == copy(h, Head(todo))
           original_status == Get(h[Head(todo)].d, "Lead Status")
           hit == DictHas(corrections, original_status)
           h1 == IF hit
                   THEN store(c.heap, c.id, "Lead Status", DictGet(corrections, original_status))
                   ELSE c.heap
       IN correct_loop_counting_all(h1, Tail(todo), corrections,
                                    Append(corrected_records, c.id), correction_count + 1)
\* A wrong loop: a status matched to the keys whatever its case and blanks
correct_loop_normalized(h, todo, corrections, corrected_records, correction_count) ==
  IF todo = <<>>
    THEN LET a == Alloc(h, ListCell(corrected_records))
         IN [heap |-> a.heap, id |-> a.id, count |-> correction_count]
  ELSE LET c == copy(h, Head(todo))
           original_status == Get(h[Head(todo)].d, "Lead Status")
           hits == {k \in DOMAIN corrections :
                      normalize(corrections[k][1]) = normalize(original_status)}
           h1 == IF hits # {}
                   THEN store(c.heap, c.id, "Lead Status",
                              corrections[CHOOSE k \in hits : TRUE][2])
                   ELSE c.heap
       IN correct_loop_normalized(h1, Tail(todo), corrections,
                                  Append(corrected_records, c.id),
                                  correction_count + (IF hits # {} THEN 1 ELSE 0))
correct_loop(h, todo, corrections, corrected_records, correction_count) ==
  IF todo = <<>>
    THEN LET a == Alloc(h, ListCell(corrected_records))
         IN [heap |-> a.heap, id |-> a.id, count |-> correction_count]
  ELSE LET c == copy(h, Head(todo))
           original_status == Get(h[Head(todo)].d, "Lead Status")
           hit == DictHas(corrections, original_status)
           h1 == IF hit
                   THEN store(c.heap, c.id, "Lead Status", DictGet(corrections, original_status))
                   ELSE c.heap
       IN correct_loop(h1, Tail(todo), corrections, Append(corrected_records, c.id),
                       correction_count + (IF hit THEN 1 ELSE 0))
apply_corrections(h, records, corrections) ==
  IF corrections = <<>> THEN [heap |-> h, id |-> records, count |-> 0]
  ELSE correct_loop(h, h[records].items, corrections, <<>>, 0)

(***************************************************************************)
(* ReportGenerator.  A report is a sequence of rows, a row a sequence of   *)
(* cells (str or int values).  A rate is kept as the pair <<numerator,     *)
(* denominator>> of the float division: for the counts of a report two     *)
(* such floats compare as the fractions do.                                *)
(***************************************************************************)
Num(n) == [t |-> "int", n |-> n]
T_Percent == <<"%">>

\* f"{num/den:.0%}": the float times 100, rounded half to even (exact for den < 40)
percent_text(rate) ==
  LET q == (100 * rate[1]) \div rate[2]
      r == (100 * rate[1]) % rate[2]
      p == IF 2 * r < rate[2] THEN q
           ELSE IF 2 * r > rate[2] THEN q + 1
           ELSE IF q % 2 = 0 THEN q ELSE q + 1
  IN Str(IntToStr(p) \o T_Percent)

\* A wrong comparison: rates that display as the same whole percent count as equal
RateGT_displayed(x, y) == percent_text(x) # percent_text(y) /\ x[1] * y[2] > y[1] * x[2]
RateGT(x, y) == x[1] * y[2] > y[1] * x[2]
\* list.sort(key=..., reverse=True) / sorted(..., reverse=True): descending by the
\* rate found by Key, rows of equal key keeping their order.  items are <<key, row>>
RECURSIVE InsertDesc(_, _)
InsertDesc(sorted, item) ==
  IF sorted = <<>> THEN <<item>>
  ELSE IF RateGT(item[1], Head(sorted)[1]) THEN <<item>> \o sorted
  ELSE <<Head(sorted)>> \o InsertDesc(Tail(sorted), item)
\* No sort: the items in the order given
Unsorted(items) == items
RECURSIVE SortDesc(_)
SortDesc(items) ==
  IF items = <<>> THEN <<>>
  ELSE InsertDesc(SortDesc(SubSeq(items, 1, Len(items) - 1)), items[Len(items)])
RECURSIVE SumOf(_, _)
SumOf(rows, col) == IF rows = <<>> THEN 0 ELSE Head(rows)[col] + SumOf(Tail(rows), col)

\* A wrong test: the status as written, not normalized
IsStatusAsWritten(record, status) == GetD(record, "Lead Status", Str(Empty)) = Str(status)
IsStatus(record, status) == normalize(GetD(record, "Lead Status", Str(Empty))) = status
CountStatus(records, status) ==
  Cardinality({i \in DOMAIN records : IsStatus(records[i], status)})

T_MTD_PRE_QA == <<"M","T","D"," ","P","R","E"," ","Q","A">>
T_MTD_POST_QA == <<"M","T","D"," ","P","O","S","T"," ","Q","A">>
T_PRE_QA == <<"P","R","E"," ","Q","A">>
T_POST_QA == <<"P","O","S","T"," ","Q","A">>
\* A wrong summary: the counts of the date and of the month-to-date swapped
combined_report_swapped(date_records, mtd_records) ==
  << <<Str(T_MTD_PRE_QA), Str(T_MTD_POST_QA), Str(T_PRE_QA), Str(T_POST_QA)>>,
     <<Num(Len(date_records)), Num(CountStatus(date_records, T_qualified)),
       Num(Len(mtd_records)), Num(CountStatus(mtd_records, T_qualified))>> >>
generate_combined_qa_report(date_records, mtd_records) ==
  << <<Str(T_MTD_PRE_QA), Str(T_MTD_POST_QA), Str(T_PRE_QA), Str(T_POST_QA)>>,
     <<Num(Len(mtd_records)), Num(CountStatus(mtd_records, T_qualified)),
       Num(Len(date_records)), Num(CountStatus(date_records, T_qualified))>> >>

\* Lines 49-56: agent_data, a defaultdict of <<agent, [qualified, disqualified]>>
RECURSIVE agent_data_of(_, _)
agent_data_of(records, agent_data) ==
  IF records = <<>> THEN agent_data
  ELSE LET record == Head(records)
           agent == GetD(record, "Agent Name", Str(T_Blank))
           status == normalize(GetD(record, "Lead Status", Str(Empty)))
           old == IF DictHas(agent_data, agent) THEN DictGet(agent_data, agent)
                  ELSE [qualified |-> 0, disqualified |-> 0]
       IN agent_data_of(Tail(records),
            IF status = T_qualified
              THEN DictSet(agent_data, agent, [old EXCEPT !.qualified = @ + 1])
            ELSE IF status = T_disqualified
              THEN DictSet(agent_data, agent, [old EXCEPT !.disqualified = @ + 1])
            ELSE agent_data)

\* A wrong Grand Total rate: the mean of the rates of the rows
RECURSIVE rate_sum(_)
rate_sum(rows) ==
  IF rows = <<>> THEN <<0, 1>>
  ELSE <<Head(rows)[5][1] * rate_sum(Tail(rows))[2] + rate_sum(Tail(rows))[1] * Head(rows)[5][2],
         Head(rows)[5][2] * rate_sum(Tail(rows))[2]>>
mean_error_pct(agent_rows) ==
  <<rate_sum(agent_rows)[1], rate_sum(agent_rows)[2] * Len(agent_rows)>>

\* Lines 74-77: sum_error_pct, the disqualified of all rows over the total of all rows
sum_error_pct(agent_rows) ==
  IF SumOf(agent_rows, 4) > 0 THEN <<SumOf(agent_rows, 2), SumOf(agent_rows, 4)>>
  ELSE <<0, 1>>

\* Lines 59-80: the rows <<agent, disqualified, qualified, total, rate>>, sorted,
\* with the Grand Total row
agent_rows_of(records) ==
  LET agent_data == agent_data_of(records, <<>>)
      row(kv) ==
        LET grand_total == kv[2].qualified + kv[2].disqualified
        IN <<kv[1], kv[2].disqualified, kv[2].qualified, grand_total,
             IF grand_total > 0 THEN <<kv[2].disqualified, grand_total>> ELSE <<0, 1>> >>
      sorted == SortDesc([i \in DOMAIN agent_data |->
                            <<row(agent_data[i])[5], row(agent_data[i])>>])
      agent_rows == [i \in DOMAIN sorted |-> sorted[i][2]]
      sum_disqualified == SumOf(agent_rows, 2)
      sum_qualified == SumOf(agent_rows, 3)
      sum_total == SumOf(agent_rows, 4)
  IN IF agent_rows = <<>> THEN <<>>
     ELSE Append(agent_rows,
            <<Str(T_GrandTotal), sum_disqualified, sum_qualified, sum_total,
              sum_error_pct(agent_rows)>>)

T_AgentName == <<"A","g","e","n","t"," ","N","a","m","e">>
T_ErrorPct == <<"E","r","r","o","r","%">>
generate_agent_breakdown_report(records) ==
  LET agent_rows == agent_rows_of(records)
  IN << <<Str(T_AgentName), Str(T_Disqualified), Str(T_Qualified), Str(T_GrandTotal),
          Str(T_ErrorPct)>> >>
     \o [i \in DOMAIN agent_rows |->
           <<agent_rows[i][1], Num(agent_rows[i][2]), Num(agent_rows[i][3]),
             Num(agent_rows[i][4]), percent_text(agent_rows[i][5])>>]

\* The Counter of the tag of column over the qualified records (lines 93-102)
RECURSIVE tag_counts_of(_, _, _)
tag_counts_of(records, column, counts) ==
  IF records = <<>> THEN counts
  ELSE LET record == Head(records)
           raw == GetD(record, column, Str(T_Blank))
           tag == IF raw = None \/ strip(str(raw)) = Empty THEN Str(T_Blank)
                  ELSE Str(strip(str(raw)))
       IN tag_counts_of(Tail(records), column,
            IF IsStatus(record, T_qualified)
              THEN DictSet(counts, tag,
                           (IF DictHas(counts, tag) THEN DictGet(counts, tag) ELSE 0) + 1)
              ELSE counts)
\* Lines 104-118: most_common() rows, the Grand Total row, the header
tag_count_report(records, column, header) ==
  LET counts == tag_counts_of(records, column, <<>>)
      sorted == SortDesc([i \in DOMAIN counts |-> << <<counts[i][2], 1>>, counts[i]>>])
      rows == [i \in DOMAIN sorted |-> sorted[i][2]]
      total_qualified == SumOf(rows, 2)
      all == IF rows = <<>> THEN <<>> ELSE Append(rows, <<Str(T_GrandTotal), total_qualified>>)
  IN <<header>> \o [i \in DOMAIN all |-> <<all[i][1], Num(all[i][2])>>]

T_QualifiedCount == <<"Q","u","a","l","i","f","i","e","d"," ","C","o","u","n","t">>
T_SegmentWise == <<"S","e","g","m","e","n","t"," ","W","i","s","e">>
T_JTPersonaTagging ==
  <<"J","T"," ","P","e","r","s","o","n","a"," ","T","a","g","g","i","n","g">>
\* A segment report without its Grand Total row
segment_report_untotalled(records) ==
  SelectSeq(tag_count_report(records, "Segment Tagging",
                             <<Str(T_SegmentWise), Str(T_QualifiedCount)>>),
            LAMBDA row : row[1] # Str(T_GrandTotal))
generate_segment_wise_report(records) ==
  tag_count_report(records, "Segment Tagging", <<Str(T_SegmentWise), Str(T_QualifiedCount)>>)
generate_jt_persona_wise_report(records) ==
  tag_count_report(records, "JT Persona Tagging",
                   <<Str(T_JTPersonaTagging), Str(T_QualifiedCount)>>)

\* Lines 156-160: the Counter of DQ Reason over the disqualified records
RECURSIVE reason_counts_of(_, _)
reason_counts_of(records, counts) ==
  IF records = <<>> THEN counts
  ELSE LET record == Head(records)
           reason == GetD(record, "DQ Reason", Str(T_Blank))
       IN reason_counts_of(Tail(records),
            IF IsStatus(record, T_disqualified)
              THEN DictSet(counts, reason,
                           (IF DictHas(counts, reason) THEN DictGet(counts, reason) ELSE 0) + 1)
              ELSE counts)
\* A wrong denominator: the disqualified records only
total_disqualified_leads(records) == CountStatus(records, T_disqualified)
\* Line 153: total_leads, the number of all the records passed in
total_leads(records) == Len(records)
\* Lines 153-175: the rows <<reason, count, rate>>, sorted, with the Grand Total row
reason_rows_of(records) ==
  LET reason_counts == reason_counts_of(records, <<>>)
      rate(count) ==
        IF total_leads(records) > 0 THEN <<count, total_leads(records)>> ELSE <<0, 1>>
      sorted == SortDesc([i \in DOMAIN reason_counts |->
                  <<rate(reason_counts[i][2]),
                    <<reason_counts[i][1], reason_counts[i][2], rate(reason_counts[i][2])>> >>])
      reason_rows == [i \in DOMAIN sorted |-> sorted[i][2]]
      total_disqualified == SumOf(reason_rows, 2)
  IN IF reason_rows = <<>> THEN <<>>
     ELSE Append(reason_rows,
            <<Str(T_GrandTotal), total_disqualified, rate(total_disqualified)>>)

T_DQReason == <<"D","Q"," ","R","e","a","s","o","n">>
generate_dq_reason_report(records) ==
  LET reason_rows == reason_rows_of(records)
  IN << <<Str(T_DQReason), Str(T_Disqualified), Str(T_ErrorPct)>> >>
     \o [i \in DOMAIN reason_rows |->
           <<reason_rows[i][1], Num(reason_rows[i][2]), percent_text(reason_rows[i][3])>>]

(***************************************************************************)
(* Sample data: the rows a workbook may hold                               *)
(***************************************************************************)
T_A == <<"A">>
T_B == <<"B">>
T_S1 == <<"S","1">>
T_S2 == <<"S","2">>
T_P1 == <<"P","1">>
T_P2 == <<"P","2">>
T_Qual == <<"Q","u","a","l">>
T_Junk == <<"J","u","n","k">>
T_email == <<"e","m","a","i","l"," ","b","o","u","n","c","e"," ","b","a","c","k">>
T_geo == <<"i","n","v","a","l","i","d"," ","g","e","o">>
T_na == <<"n","/","a">>
T_Nov06_iso == <<"2","0","2","5","-","1","1","-","0","6">>
T_Nov06_abbr == <<"0","6","-","N","o","v","-","2","5">>
T_Nov03_dmy == <<"0","3","-","1","1","-","2","0","2","5">>
T_Nov03_iso == <<"2","0","2","5","-","1","1","-","0","3">>
T_Nov03_time ==
  <<"2","0","2","5","-","1","1","-","0","3"," ","0","0",":","0","0",":","0","0">>
T_Oct28_slash == <<"2","8","/","1","0","/","2","0","2","5">>

Row(status, agent, reason, audit_date) ==
  [k \in {"Lead Status", "Agent Name", "DQ Reason", "Audit Date"} |->
     CASE k = "Lead Status" -> status
       [] k = "Agent Name" -> agent
       [] k = "DQ Reason" -> reason
       [] k = "Audit Date" -> audit_date]

\* A row with the two optional tagging columns
Tagged(row, segment, persona) ==
  SetItem(SetItem(row, "Segment Tagging", segment), "JT Persona Tagging", persona)

SampleRows ==
  { Row(Str(T_Qualified), Str(T_A), Str(T_Dash), Str(T_Nov06_iso)),
    Row(Str(T_Disqualified), Str(T_A), Str(T_email), Str(T_Nov06_abbr)),
    Row(Str(T_Disqualified), Str(T_B), Str(T_geo), Str(T_Nov03_dmy)),
    Row(Str(T_Qual), Str(T_B), None, Str(T_Nov03_time)),
    Row(Str(T_qualified), Str(T_A), None, Str(T_Oct28_slash)),
    Row(Str(T_Junk), None, Str(T_email), Str(T_na)),
    Row(None, Str(<<" ">>), None, None) }

\* The end-to-end scenario of the specification: six records of 2025-11-06 (four
\* Qualified, two Disqualified) and four of 2025-11-03 (three Qualified, one
\* Disqualified)
ScenarioRows ==
  LET q6 == Tagged(Row(Str(T_Qualified), Str(T_A), Str(T_Dash), Str(T_Nov06_iso)),
                   Str(T_S1), Str(T_P1))
      d6 == Row(Str(T_Disqualified), Str(T_B), Str(T_email), Str(T_Nov06_iso))
      e6 == Row(Str(T_Disqualified), Str(T_A), Str(T_geo), Str(T_Nov06_iso))
      q3 == Tagged(Row(Str(T_Qualified), Str(T_B), Str(T_Dash), Str(T_Nov03_iso)),
                   Str(T_S2), Str(T_P2))
      d3 == Row(Str(T_Disqualified), Str(T_A), Str(T_geo), Str(T_Nov03_iso))
  IN <<q6, d3, q6, q3, d6, q6, q3, e6, q3, q6>>

\* The example of five records of status 'Qual'
FiveQualRows == [i \in 1..5 |-> Row(Str(T_Qual), Str(T_B), None, Str(T_Nov03_time))]

\* Most records of a generated workbook
MaxRecords == 2
RECURSIVE SeqsUpTo(_, _)
SeqsUpTo(S, n) ==
  IF n = 0 THEN {<<>>}
  ELSE LET shorter == SeqsUpTo(S, n - 1)
       IN shorter \cup {Append(q, x) : q \in {r \in shorter : Len(r) = n - 1}, x \in S}

\* _parse_sheet, lines 129-142: each data row becomes a record tagged with its
\* row number (the header is row 1) and its sheet
tag_rows(rows, sheet_type) ==
  [i \in DOMAIN rows |->
     SetItem(SetItem(rows[i], "_row_number", Num(i + 1)), "_sheet_name", Str(sheet_type))]

(***************************************************************************)
(* load_and_parse_excel on the workbook as openpyxl gives it: a file of a   *)
(* size in bytes whose worksheets have a title and rows of cells, a blank   *)
(* row being a row of None cells.  A parsed record is a dict in insertion   *)
(* order, the column names being the header cells.                          *)
(***************************************************************************)
MAX_FILE_SIZE_MB == 50
T_LeadStatus == <<"L","e","a","d"," ","S","t","a","t","u","s">>
T_LEAD_STATUS == <<"L","E","A","D"," ","S","T","A","T","U","S">>
T_Column == <<"C","o","l","u","m","n","_">>
T_row_number == <<"_","r","o","w","_","n","u","m","b","e","r">>
T_sheet_name == <<"_","s","h","e","e","t","_","n","a","m","e">>
\* TRUE where validate_file_size raises ValidationError (lines 33-36)
validate_file_size(uploaded_file) == uploaded_file.size > MAX_FILE_SIZE_MB * 1024 * 1024
max_row(worksheet) == Len(worksheet.rows)
\* A wrong test: a row of None cells counts as a row of data
any_cell_or_none(row) == row # <<>>
\* "any(cell is not None for cell in row)"
any_cell(row) == \E i \in DOMAIN row : row[i] # None
\* Line 125: the column names, Column_<i> for a header cell of None
headers_of(first) ==
  [i \in DOMAIN first |->
     IF first[i] # None THEN Str(strip(str(first[i]))) ELSE Str(T_Column \o IntToStr(i))]
\* Lines 133-136: the record of a row, column by column
RECURSIVE record_of_row(_, _, _)
record_of_row(headers, row, n) ==
  IF n = 0 THEN <<>>
  ELSE DictSet(record_of_row(headers, row, n - 1), headers[n],
               IF n <= Len(row) THEN row[n] ELSE None)
\* Lines 129-142: the records of data[1:], numbered from 2 in the order of data
records_of_data(headers, data, sheet_type) ==
  LET numbered == SelectSeq([k \in 1..(Len(data) - 1) |-> <<k + 1, data[k + 1]>>],
                            LAMBDA item : any_cell(item[2]))
  IN [k \in DOMAIN numbered |->
        DictSet(DictSet(record_of_row(headers, numbered[k][2], Len(headers)),
                        Str(T_row_number), Num(numbered[k][1])),
                Str(T_sheet_name), Str(sheet_type))]
\* _parse_sheet, lines 108-144
parse_sheet(worksheet, sheet_type) ==
  IF max_row(worksheet) < 2 THEN [records |-> <<>>, headers |-> <<>>]
  ELSE LET data == SelectSeq(worksheet.rows, any_cell)
       IN IF data = <<>> THEN [records |-> <<>>, headers |-> <<>>]
          ELSE [records |-> records_of_data(headers_of(data[1]), data, sheet_type),
                headers |-> headers_of(data[1])]
\* Lines 48-56: the last worksheet whose title reads name, 0 for none
RECURSIVE sheet_titled(_, _, _)
sheet_titled(worksheets, name, n) ==
  IF n = 0 THEN 0
  ELSE IF strip(lower(worksheets[n].title)) = name THEN n
  ELSE sheet_titled(worksheets, name, n - 1)
\* Lines 93-99: the headers, one of each whatever its case, in their order
\* The headers without lines 95-97: every header kept
headers_with_repeats(all_headers) == all_headers
RECURSIVE unique_headers_of(_)
unique_headers_of(all_headers) ==
  IF all_headers = <<>> THEN <<>>
  ELSE LET before == SubSeq(all_headers, 1, Len(all_headers) - 1)
           header == all_headers[Len(all_headers)]
       IN IF \E i \in DOMAIN before : lower(before[i].s) = lower(header.s)
            THEN unique_headers_of(before)
            ELSE Append(unique_headers_of(before), header)
Raises == [records |-> <<>>, headers |-> <<>>, raised |-> TRUE]
\* Lines 68-91: the Qualified sheet, then the Disqualified sheet
parse_sheets(worksheets, qualified_sheet, disqualified_sheet) ==
  LET q == IF qualified_sheet # 0 THEN parse_sheet(worksheets[qualified_sheet], T_Qualified)
           ELSE [records |-> <<>>, headers |-> <<>>]
      d == IF disqualified_sheet # 0
             THEN parse_sheet(worksheets[disqualified_sheet], T_Disqualified)
           ELSE [records |-> <<>>, headers |-> <<>>]
  IN IF q.records \o d.records = <<>> THEN Raises
     ELSE [records |-> q.records \o d.records,
           headers |-> unique_headers_of(q.headers \o d.headers), raised |-> FALSE]
\* load_and_parse_excel, lines 38-106: raised where it raises ValidationError
load_and_parse_excel(uploaded_file) ==
  IF validate_file_size(uploaded_file) THEN Raises
  ELSE IF uploaded_file.worksheets = <<>> THEN Raises
  ELSE IF /\ sheet_titled(uploaded_file.worksheets, T_qualified, Len(uploaded_file.worksheets)) = 0
          /\ sheet_titled(uploaded_file.worksheets, T_disqualified,
                          Len(uploaded_file.worksheets)) = 0
    THEN Raises
  ELSE parse_sheets(uploaded_file.worksheets,
         sheet_titled(uploaded_file.worksheets, T_qualified, Len(uploaded_file.worksheets)),
         sheet_titled(uploaded_file.worksheets, T_disqualified, Len(uploaded_file.worksheets)))

SampleRecordLists ==
  {tag_rows(rows, T_Qualified) : rows \in SeqsUpTo(SampleRows, MaxRecords) \cup {ScenarioRows, FiveQualRows}}

SelectedDates == {Date(2025, 11, 6), Date(2025, 11, 3), Date(2025, 10, 15)}
DateColumns == {"Audit Date", NoColumn}
\* list(set(ACCEPTED_LEAD_STATUS)): the order a set yields is fixed within a
\* process and not across processes
ValidOrders ==
  { ACCEPTED_LEAD_STATUS, <<ACCEPTED_LEAD_STATUS[2], ACCEPTED_LEAD_STATUS[1]>> }

(***************************************************************************)
(* The application (QAReportApp).  Streamlit runs the script once per user *)
(* event; what outlives a run is st.session_state and the widgets' values. *)
(***************************************************************************)
REQUIRED_COLUMNS == <<"Lead Status", "Agent Name", "DQ Reason">>
OPTIONAL_COLUMNS == <<"Segment Tagging", "JT Persona Tagging">>
\* h.lower() for the column names of the sample workbooks
header_lower(h) ==
  CASE h = "Lead Status" -> "lead status"
    [] h = "LEAD STATUS" -> "lead status"
    [] h = "Agent Name" -> "agent name"
    [] h = "DQ Reason" -> "dq reason"
    [] h = "Audit Date" -> "audit date"
    [] h = "Segment Tagging" -> "segment tagging"
    [] h = "JT Persona Tagging" -> "jt persona tagging"
    [] OTHER -> h
headers_lower(headers) == {header_lower(headers[j]) : j \in DOMAIN headers}
\* TRUE where validate_columns raises ValidationError
validate_columns(headers) ==
  \E i \in DOMAIN REQUIRED_COLUMNS :
    header_lower(REQUIRED_COLUMNS[i]) \notin headers_lower(headers)
check_optional_columns(headers) ==
  [col \in Range(OPTIONAL_COLUMNS) |-> header_lower(col) \in headers_lower(headers)]
\* The header that reads "audit date" (the last one, as the dict keeps it)
detect_date_column(headers) ==
  IF "audit date" \notin headers_lower(headers) THEN NoColumn
  ELSE headers[CHOOSE j \in DOMAIN headers :
                 /\ header_lower(headers[j]) = "audit date"
                 /\ \A k \in DOMAIN headers : header_lower(headers[k]) = "audit date" => k <= j]
get_date_column_options(headers) ==
  SelectSeq(headers,
    LAMBDA h : header_lower(h) \notin
                 {"_row_number", "_sheet_name", "lead status", "dq reason", "agent name"})
\* parse_dates_from_records(...).values(), and get_unique_dates: their sorted list
parsed_dates_of(records, date_column) ==
  {parse_date(Get(records[i], date_column)) : i \in DOMAIN records} \ {None}
RECURSIVE sorted_dates(_)
sorted_dates(dates) ==
  IF dates = {} THEN <<>>
  ELSE <<CHOOSE d \in dates : \A e \in dates : DateLE(d, e)>>
         \o sorted_dates(dates \ {CHOOSE d \in dates : \A e \in dates : DateLE(d, e)})
\* d.strftime('%d-%b-%Y')
strftime_dbY(d) ==
  (IF d.d < 10 THEN <<"0">> ELSE <<>>) \o IntToStr(d.d) \o <<"-">>
    \o <<UpperChar(MonthAbbr[d.m][1])>> \o Tail(MonthAbbr[d.m]) \o <<"-">> \o IntToStr(d.y)

\* The records clean_data and apply_corrections return for records given by value
records_of(r) == Records(r.heap, r.id)
cleaned_of(a) == records_of(clean_data(a.heap, a.id))
corrected_of(a, corrections) == records_of(apply_corrections(a.heap, a.id, corrections))
clean_values(records) == cleaned_of(AllocAll(<<>>, records, <<>>))
apply_values(records, corrections) == corrected_of(AllocAll(<<>>, records, <<>>), corrections)

\* The workbooks a user may select.  load_and_parse_excel gives a workbook's
\* headers and records
Headers4 == <<"Lead Status", "Agent Name", "DQ Reason", "Audit Date">>
T_FileA == <<"a",".","x","l","s","x">>
T_FileB == <<"b",".","x","l","s","x">>
T_FileC == <<"c",".","x","l","s","x">>
T_FileD == <<"d",".","x","l","s","x">>
Workbook(name, headers, rows) ==
  [name |-> Str(name), headers |-> headers, records |-> tag_rows(rows, T_Qualified)]
Files ==
  << Workbook(T_FileA, Headers4,
       << Row(Str(T_Qual), Str(T_B), None, Str(T_Nov03_time)),
          Row(Str(T_Disqualified), Str(T_A), Str(T_email), Str(T_Nov06_abbr)),
          Row(Str(T_Qualified), Str(T_A), Str(T_Dash), Str(T_Nov06_iso)) >>),
     Workbook(T_FileB, Headers4,
       << Row(Str(T_Junk), None, Str(T_email), Str(T_na)),
          Row(Str(T_qualified), Str(T_A), None, Str(T_Oct28_slash)),
          Row(Str(T_Disqualified), Str(T_B), Str(T_geo), Str(T_Nov03_dmy)) >>),
     Workbook(T_FileC, Headers4 \o OPTIONAL_COLUMNS,
       << Tagged(Row(Str(T_Qualified), Str(T_A), Str(T_Dash), Str(T_Nov06_iso)),
                 Str(T_S1), Str(T_P1)),
          Tagged(Row(Str(T_Disqualified), Str(T_B), Str(T_geo), Str(T_Nov03_dmy)),
                 None, None) >>),
     Workbook(T_FileD, Headers4,
       << Row(Str(T_Qualified), Str(T_B), Str(T_Dash), Str(T_Oct28_slash)) >>) >>
NoFile == 0

\* st.session_state: a dict
Put(s, key, value) == SetItem(s, key, value)
Del(s, keys) == [k \in (DOMAIN s) \ keys |-> s[k]]
NoSession == [k \in {} |-> None]



\* Wrong optional reports: made of the records of the selected date
reports_of_date_window(date_records, mtd_records, all_records, optional_reports) ==
  [name \in {"Combined QA Report", "Agent Wise Summary", "Primary Reason Disqualified"}
            \cup (IF optional_reports.segment THEN {"Segment Wise Qualified Count"} ELSE {})
            \cup (IF optional_reports.jt_persona
                    THEN {"JT Persona Wise Qualified Count"} ELSE {}) |->
     CASE name = "Combined QA Report" ->
            generate_combined_qa_report(date_records, mtd_records)
       [] name = "Agent Wise Summary" -> generate_agent_breakdown_report(date_records)
       [] name = "Primary Reason Disqualified" -> generate_dq_reason_report(date_records)
       [] name = "Segment Wise Qualified Count" -> generate_segment_wise_report(date_records)
       [] name = "JT Persona Wise Qualified Count" ->
            generate_jt_persona_wise_report(date_records)]
\* Lines 689-701: the reports of a Generate click
reports_of(date_records, mtd_records, all_records, optional_reports) ==
  [name \in {"Combined QA Report", "Agent Wise Summary", "Primary Reason Disqualified"}
            \cup (IF optional_reports.segment THEN {"Segment Wise Qualified Count"} ELSE {})
            \cup (IF optional_reports.jt_persona
                    THEN {"JT Persona Wise Qualified Count"} ELSE {}) |->
     CASE name = "Combined QA Report" ->
            generate_combined_qa_report(date_records, mtd_records)
       [] name = "Agent Wise Summary" -> generate_agent_breakdown_report(date_records)
       [] name = "Primary Reason Disqualified" -> generate_dq_reason_report(date_records)
       [] name = "Segment Wise Qualified Count" -> generate_segment_wise_report(all_records)
       [] name = "JT Persona Wise Qualified Count" ->
            generate_jt_persona_wise_report(all_records)]

\* Lines 647-679: the optional reports the checkboxes select
show_optional_report_selection(optional_columns, w) ==
  [segment |-> optional_columns["Segment Tagging"] /\ w.segment,
   jt_persona |-> optional_columns["JT Persona Tagging"] /\ w.jt_persona]
optional_inputs(optional_columns) ==
  (IF optional_columns["Segment Tagging"] THEN {"segment"} ELSE {})
    \cup (IF optional_columns["JT Persona Tagging"] THEN {"jt_persona"} ELSE {})


\* Lines 221-274, _handle_date_selection: [stop, column, date, options], with
\* stop where st.stop() ends the run.  choice is the selectbox's value, the
\* last option where the value is not among the options
NoSelection == [stop |-> FALSE, column |-> NoColumn, date |-> None, options |-> <<>>]
pick_date(date_column, date_options, choice) ==
  IF date_options = <<>> THEN NoSelection
  ELSE [stop |-> FALSE, column |-> date_column, options |-> date_options,
        date |-> strptime_date(IF choice \in Range(date_options) THEN choice
                                 ELSE date_options[Len(date_options)],
                               <<"%d", "-", "%b", "-", "%Y">>)]
date_options_of(unique_dates) == [i \in DOMAIN unique_dates |-> strftime_dbY(unique_dates[i])]
select_date(date_column, records, choice) ==
  pick_date(date_column, date_options_of(sorted_dates(parsed_dates_of(records, date_column))),
            choice)
handle_date_selection(headers, records, choice) ==
  IF detect_date_column(headers) # NoColumn
    THEN select_date(detect_date_column(headers), records, choice)
  ELSE IF get_date_column_options(headers) = <<>>
    THEN [stop |-> TRUE, column |-> NoColumn, date |-> None, options |-> <<>>]
  ELSE select_date(get_date_column_options(headers)[1], records, choice)


\* Lines 589-603: TRUE where _validate_data raises ValidationError
\* (validate_dq_reasons raises nothing)
validate_data(headers, records) == validate_columns(headers) \/ validate_lead_status(records)

\* Lines 178-219, _show_correction_interface.  The options of an issue's radio
\* are its auto-suggestion, the other valid options and "Keep as is"; a
\* choice is the index of the selected option, the first one by default
KeepAsIs == [t |-> "keep"]
options_of(issue) ==
  (IF issue.auto_suggestion # None THEN <<issue.auto_suggestion>> ELSE <<>>)
    \o SelectSeq(issue.valid_options, LAMBDA valid_option : valid_option # issue.auto_suggestion)
    \o <<KeepAsIs>>
\* A radio whose "Keep as is" gives the first option
selected_or_first(issue, idx, choices) ==
  IF idx \in DOMAIN choices /\ choices[idx] \in DOMAIN options_of(issue)
       /\ options_of(issue)[choices[idx]] # KeepAsIs
    THEN options_of(issue)[choices[idx]]
    ELSE options_of(issue)[1]
selected_of(issue, idx, choices) ==
  IF idx \in DOMAIN choices /\ choices[idx] \in DOMAIN options_of(issue)
    THEN options_of(issue)[choices[idx]]
    ELSE options_of(issue)[1]
RECURSIVE user_corrections_of(_, _, _, _)
user_corrections_of(issues, idx, choices, user_corrections) ==
  IF idx > Len(issues) THEN user_corrections
  ELSE user_corrections_of(issues, idx + 1, choices,
         IF selected_of(issues[idx], idx, choices) # KeepAsIs
           THEN DictSet(user_corrections, issues[idx].original,
                        selected_of(issues[idx], idx, choices))
           ELSE user_corrections)
\* The corrections of the user's choices: <<>> where the interface returns None
show_correction_interface(issues, choices) == user_corrections_of(issues, 1, choices, <<>>)


\* Lines 61-65
cache_valid(s, file_identifier) ==
  /\ "processed_data" \in DOMAIN s
  /\ GetD(s, "uploaded_file_name", None) = file_identifier
  /\ ~GetD(s, "force_reprocess", FALSE)
\* Lines 408-419: the Clear button
ClearedKeys ==
  {"processed_data", "uploaded_file_name", "date_selected", "date_column", "selected_date",
   "reports", "date_records", "mtd_records", "corrections_reviewed", "correction_summary",
   "corrected_records"}
clear_upload(s) == Put(Del(s, ClearedKeys), "force_reprocess", TRUE)


(***************************************************************************)
(* The pipeline: a workbook's records are checked for Lead Status issues,  *)
(* corrected, cleaned, filtered by date and reported.  Every step is the   *)
(* call of one function of the program on the result of the step before.   *)
(***************************************************************************)
VARIABLES
  pc,             \* the step the pipeline is at
  heap,           \* the objects
  valid_order,    \* list(valid_statuses) of this process
  records,        \* the parsed records (identity of the list)
  found,          \* find_lead_status_issues(records)
  corrections,    \* the correction map the user chose
  corrected,      \* apply_corrections(records, corrections): [id, count]
  recorrected,    \* apply_corrections(corrected, corrections): [id, count]
  cleaned,        \* clean_data(corrected) (identity of the list)
  date_column,    \* DataProcessor.date_column
  selected_date,  \* the date the user selected
  date_records,   \* filter_records_by_date(cleaned, selected_date)
  mtd_records,    \* filter_records_mtd(cleaned, selected_date)
  reports,        \* the generated reports, by name
  session,        \* the application's st.session_state
  widgets,        \* the values of the application's widgets
  click,          \* the button whose click started the script's run ("none": no button)
  at,             \* the script's position in QAReportApp.run ("idle": no run)
  local,          \* the local variables of the run
  last,           \* the latest run: the session before it, what it showed, how it ended
  events,         \* the number of user events so far
  call            \* a function called on its own: its name, its arguments, its result

pipeline_vars == <<pc, heap, records, found, corrections, corrected, recorrected,
                   cleaned, date_column, selected_date, date_records, mtd_records, reports>>
app_vars == <<session, widgets, click, at, local, last, events>>
vars == <<pipeline_vars, valid_order, app_vars, call>>

NoList == 0
NoResult == [id |-> NoList, count |-> 0]
NoFound == [issues |-> <<>>, auto_suggestions |-> <<>>]
NoWidgets ==
  [file |-> NoFile, choices |-> <<>>, date |-> <<>>, campaign |-> FALSE,
   segment |-> FALSE, jt_persona |-> FALSE]
NoLocal ==
  [headers |-> <<>>, records |-> <<>>, cleaned_records |-> <<>>,
   optional_columns |-> [col \in Range(OPTIONAL_COLUMNS) |-> FALSE],
   issues |-> <<>>, user_corrections |-> <<>>, selection |-> NoSelection, date_filtered_records |-> <<>>, mtd_filtered_records |-> <<>>]
\* What a run shows and does: the session before it, its outcome, the buttons
\* and inputs it renders, the issues of its correction interface, the records
\* it validates, the options of its date selectbox, the steps it reaches; and,
\* kept from run to run, the files for whose issues Apply or Skip was clicked
NoRun ==
  [before |-> NoSession, outcome |-> "none", buttons |-> {}, shown |-> <<>>,
   validated |-> <<>>, date_options |-> <<>>, steps |-> {}, reviewed |-> {}]
NoCall == [fn |-> "none", args |-> <<>>, result |-> None]
AppIdle ==
  /\ call = NoCall
  /\ session = NoSession
  /\ widgets = NoWidgets
  /\ click = "none"
  /\ at = "idle"
  /\ local = NoLocal
  /\ last = NoRun
  /\ events = 0

Init ==
  /\ pc = "parsed"
  /\ \E contents \in SampleRecordLists :
       LET a == AllocAll(<<>>, contents, <<>>)
       IN heap = a.heap /\ records = a.id
  /\ valid_order \in ValidOrders
  /\ found = NoFound
  /\ corrections = <<>>
  /\ corrected = NoResult
  /\ recorrected = NoResult
  /\ cleaned = NoList
  /\ date_column = NoColumn
  /\ selected_date = None
  /\ date_records = <<>>
  /\ mtd_records = <<>>
  /\ reports = <<>>
  /\ AppIdle

\* The correction maps the correction interface can return for the issues: per
\* issue one of the valid options or "Keep as is", the kept ones left out
RECURSIVE CorrectionMaps(_)
CorrectionMaps(issues) ==
  IF issues = <<>> THEN {<<>>}
  ELSE LET rest == CorrectionMaps(Tail(issues))
       IN rest \cup {<< <<Head(issues).original, v>> >> \o m :
                       v \in Range(Head(issues).valid_options), m \in rest}

FindIssues ==
  /\ pc = "parsed"
  /\ found' = find_lead_status_issues(Records(heap, records), valid_order)
  /\ pc' = "found"
  /\ UNCHANGED <<heap, valid_order, records, corrections, corrected, recorrected, cleaned,
                 date_column, selected_date, date_records, mtd_records, reports>>
  /\ UNCHANGED <<app_vars, call>>

ApplyCorrections ==
  /\ pc = "found"
  /\ \E m \in CorrectionMaps(found.issues) :
       LET r == apply_corrections(heap, records, m)
       IN /\ corrections' = m
          /\ heap' = r.heap
          /\ corrected' = [id |-> r.id, count |-> r.count]
  /\ pc' = "corrected"
  /\ UNCHANGED <<valid_order, records, found, recorrected, cleaned,
                 date_column, selected_date, date_records, mtd_records, reports>>
  /\ UNCHANGED <<app_vars, call>>

ApplyAgain ==
  /\ pc = "corrected"
  /\ LET r == apply_corrections(heap, corrected.id, corrections)
     IN /\ heap' = r.heap
        /\ recorrected' = [id |-> r.id, count |-> r.count]
  /\ pc' = "recorrected"
  /\ UNCHANGED <<valid_order, records, found, corrections, corrected, cleaned,
                 date_column, selected_date, date_records, mtd_records, reports>>
  /\ UNCHANGED <<app_vars, call>>

Clean ==
  /\ pc = "corrected"
  /\ LET r == clean_data(heap, corrected.id)
     IN heap' = r.heap /\ cleaned' = r.id
  /\ pc' = "cleaned"
  /\ UNCHANGED <<valid_order, records, found, corrections, corrected, recorrected,
                 date_column, selected_date, date_records, mtd_records, reports>>
  /\ UNCHANGED <<app_vars, call>>

Filter ==
  /\ pc = "cleaned"
  /\ \E column \in DateColumns, target \in SelectedDates :
       /\ date_column' = column
       /\ selected_date' = target
       /\ date_records' = filter_records_by_date(Records(heap, cleaned), target, column)
       /\ mtd_records' = filter_records_mtd(Records(heap, cleaned), target, column)
  /\ pc' = "filtered"
  /\ UNCHANGED <<heap, valid_order, records, found, corrections, corrected, recorrected,
                 cleaned, reports>>
  /\ UNCHANGED <<app_vars, call>>

Generate ==
  /\ pc = "filtered"
  /\ reports' =
       [name \in {"combined", "agent", "dq_reason", "segment", "jt_persona"} |->
          CASE name = "combined" -> generate_combined_qa_report(date_records, mtd_records)
            [] name = "agent" -> generate_agent_breakdown_report(date_records)
            [] name = "dq_reason" -> generate_dq_reason_report(date_records)
            [] name = "segment" -> generate_segment_wise_report(Records(heap, cleaned))
            [] name = "jt_persona" -> generate_jt_persona_wise_report(Records(heap, cleaned))]
  /\ pc' = "reported"
  /\ UNCHANGED <<heap, valid_order, records, found, corrections, corrected, recorrected,
                 cleaned, date_column, selected_date, date_records, mtd_records>>
  /\ UNCHANGED <<app_vars, call>>

Next == FindIssues \/ ApplyCorrections \/ ApplyAgain \/ Clean \/ Filter \/ Generate

Spec == Init /\ [][Next]_vars

(***************************************************************************)
(* The application's sessions.  A user event (a file selected, a button    *)
(* clicked, an option chosen) starts a run of the script; the run goes     *)
(* through QAReportApp.run step by step, writing st.session_state as the   *)
(* code does, until it returns, raises, stops or asks for a rerun.  No     *)
(* user event comes between the steps of a run.                            *)
(***************************************************************************)
PipelineIdle ==
  /\ pc = "app"
  /\ heap = <<>>
  /\ records = NoList
  /\ found = NoFound
  /\ corrections = <<>>
  /\ corrected = NoResult
  /\ recorrected = NoResult
  /\ cleaned = NoList
  /\ date_column = NoColumn
  /\ selected_date = None
  /\ date_records = <<>>
  /\ mtd_records = <<>>
  /\ reports = <<>>

AppInit ==
  /\ PipelineIdle
  /\ valid_order \in ValidOrders
  /\ AppIdle

AppFixed == UNCHANGED <<pipeline_vars, valid_order, call>>
\* The user events of a session
MaxEvents == 4
\* A run starts with the widgets w and the button b clicked.  The radios of a
\* correction interface keep their values while the interface is shown
Begin(w, b) ==
  /\ at = "idle"
  /\ widgets' = [w EXCEPT !.choices = IF last.shown = <<>> THEN <<>> ELSE @]
  /\ click' = b
  /\ at' = "upload"
  /\ local' = NoLocal
  /\ last' = [NoRun EXCEPT !.before = session, !.outcome = "running",
                          !.reviewed = last.reviewed]
  /\ UNCHANGED session
  /\ AppFixed
\* The user acts when no rerun is due
UserEvent(w, b) ==
  /\ last.outcome # "rerun"
  /\ events < MaxEvents
  /\ events' = events + 1
  /\ Begin(w, b)

\* The user selects another file, or removes the file
SelectFile ==
  \E f \in {NoFile} \cup DOMAIN Files :
    /\ f # widgets.file
    /\ UserEvent([widgets EXCEPT !.file = f, !.choices = <<>>, !.date = <<>>], "none")
ClickClear == "clear" \in last.buttons /\ UserEvent(widgets, "clear")
\* The user selects an option of an issue's radio
ChooseCorrection ==
  \E idx \in DOMAIN last.shown :
    \E k \in DOMAIN options_of(last.shown[idx]) :
      UserEvent([widgets EXCEPT !.choices =
                   [i \in DOMAIN last.shown |->
                      IF i = idx THEN k
                      ELSE IF i \in DOMAIN widgets.choices THEN widgets.choices[i] ELSE 1]],
                "none")
ClickApply == "apply" \in last.buttons /\ UserEvent(widgets, "apply")
ClickSkip == "skip" \in last.buttons /\ UserEvent(widgets, "skip")
SelectDate ==
  \E i \in DOMAIN last.date_options :
    UserEvent([widgets EXCEPT !.date = last.date_options[i]], "none")
\* The user enters a Campaign ID, or empties the input
EnterCampaignId ==
  "campaign" \in last.buttons /\ UserEvent([widgets EXCEPT !.campaign = ~@], "none")
\* The user ticks or unticks the checkbox of an optional report
ToggleOptionalReport ==
  \/ "segment" \in last.buttons /\ UserEvent([widgets EXCEPT !.segment = ~@], "none")
  \/ "jt_persona" \in last.buttons /\ UserEvent([widgets EXCEPT !.jt_persona = ~@], "none")
ClickGenerate == "generate" \in last.buttons /\ UserEvent(widgets, "generate")
\* The run st.rerun() asked for
Rerun == last.outcome = "rerun" /\ Begin(widgets, "none") /\ UNCHANGED events

\* The run ends with the outcome, having rendered the buttons and reached step
Ends(outcome, rendered, step) ==
  /\ at' = "idle"
  /\ last' = [last EXCEPT !.outcome = outcome, !.buttons = @ \cup rendered,
                          !.steps = @ \cup step]
\* The run ends in a rerun after a click on the button of the correction
\* interface shown for the selected file
EndsReviewed(button) ==
  /\ at' = "idle"
  /\ last' = [last EXCEPT !.outcome = "rerun", !.buttons = @ \cup {button},
                          !.steps = @ \cup {button}, !.reviewed = @ \cup {widgets.file}]
\* The run goes on to the position, having rendered the buttons and reached step
GoesOn(position, rendered, step) ==
  /\ at' = position
  /\ last' = [last EXCEPT !.buttons = @ \cup rendered, !.steps = @ \cup step]

\* Lines 52-69 with _render_file_upload_section: no file, the Clear button, the
\* cache test
RenderUpload ==
  /\ at = "upload"
  /\ IF widgets.file = NoFile
       THEN Ends("instructions", {}, {}) /\ UNCHANGED <<session, local>>
     ELSE IF click = "clear"
       THEN /\ session' = clear_upload(session)
            /\ Ends("rerun", {"clear"}, {"clear"})
            /\ UNCHANGED local
     ELSE IF ~cache_valid(session, Files[widgets.file].name)
       THEN /\ session' = Del(session, {"force_reprocess"})
            /\ GoesOn("load", {"clear"}, {})
            /\ UNCHANGED local
     ELSE /\ local' = [local EXCEPT !.headers = session.processed_data.headers,
                                    !.records = session.processed_data.records,
                                    !.cleaned_records = session.processed_data.cleaned_records,
                                    !.optional_columns = session.processed_data.optional_columns]
          /\ GoesOn("dates", {"clear"}, {})
          /\ UNCHANGED session
  /\ UNCHANGED <<widgets, click>>
  /\ UNCHANGED events
  /\ AppFixed

\* Lines 72 and 75: load_and_parse_excel, and whether the corrections were reviewed
LoadFile ==
  /\ at = "load"
  /\ local' = [local EXCEPT !.headers = Files[widgets.file].headers,
                            !.records = Files[widgets.file].records]
  /\ GoesOn(IF GetD(session, "corrections_reviewed", FALSE) THEN "corrected" ELSE "issues",
            {}, {"load"})
  /\ UNCHANGED <<session, widgets, click>>
  /\ UNCHANGED events
  /\ AppFixed

\* Lines 76-78 and 101-102: the issues of the loaded records
FindLeadStatusIssues ==
  /\ at = "issues"
  /\ local' = [local EXCEPT !.issues = find_lead_status_issues(local.records, valid_order).issues]
  /\ at' = "interface"
  /\ UNCHANGED <<session, widgets, click, last>>
  /\ UNCHANGED events
  /\ AppFixed

\* Lines 78-80 and 101-102: no issue, or the correction interface
ShowCorrectionInterface ==
  /\ at = "interface"
  /\ IF local.issues = <<>>
       THEN /\ session' = Put(session, "corrections_reviewed", TRUE)
            /\ GoesOn("corrected", {}, {})
            /\ UNCHANGED local
       ELSE /\ local' = [local EXCEPT !.user_corrections =
                           show_correction_interface(local.issues, widgets.choices)]
            /\ at' = "buttons"
            /\ last' = [last EXCEPT !.shown = local.issues]
            /\ UNCHANGED session
  /\ UNCHANGED <<widgets, click>>
  /\ UNCHANGED events
  /\ AppFixed

\* Lines 82-100: the Apply button where the interface returns corrections, the
\* Skip button where it returns None
CorrectionButtons ==
  /\ at = "buttons"
  /\ IF local.user_corrections # <<>>
       THEN IF click = "apply"
              THEN /\ session' =
                        Put(Put(Put(session, "corrections_reviewed", TRUE),
                                "correction_summary", local.user_corrections),
                            "corrected_records",
                            apply_values(local.records, local.user_corrections))
                   /\ EndsReviewed("apply")
              ELSE Ends("awaiting_corrections", {"apply"}, {}) /\ UNCHANGED session
     ELSE IF click = "skip"
       THEN /\ session' = Put(session, "corrections_reviewed", TRUE)
            /\ EndsReviewed("skip")
     ELSE Ends("awaiting_corrections", {"skip"}, {}) /\ UNCHANGED session
  /\ UNCHANGED <<widgets, click, local>>
  /\ UNCHANGED events
  /\ AppFixed

\* Lines 104-105: the session's corrected records replace the loaded ones
UseCorrectedRecords ==
  /\ at = "corrected"
  /\ local' = [local EXCEPT !.records = IF "corrected_records" \in DOMAIN session
                                           THEN session.corrected_records ELSE @]
  /\ at' = "validate"
  /\ UNCHANGED <<session, widgets, click, last>>
  /\ UNCHANGED events
  /\ AppFixed

\* Line 107 and lines 172-173: _validate_data, whose ValidationError ends the run
ValidateData ==
  /\ at = "validate"
  /\ IF validate_data(local.headers, local.records)
       THEN /\ at' = "idle"
            /\ last' = [last EXCEPT !.outcome = "validation_error",
                                    !.validated = local.records]
       ELSE /\ at' = "clean"
            /\ last' = [last EXCEPT !.validated = local.records]
  /\ UNCHANGED <<session, widgets, click, local>>
  /\ UNCHANGED events
  /\ AppFixed

\* Lines 108-109: clean_data and check_optional_columns
CleanData ==
  /\ at = "clean"
  /\ local' = [local EXCEPT !.cleaned_records = clean_values(local.records),
                            !.optional_columns = check_optional_columns(local.headers)]
  /\ at' = "store"
  /\ UNCHANGED <<session, widgets, click, last>>
  /\ UNCHANGED events
  /\ AppFixed

\* Lines 111-118: the processed data go to the session
StoreProcessedData ==
  /\ at = "store"
  /\ session' =
       Put(Put(Put(session, "processed_data",
                   [headers |-> local.headers, records |-> local.records,
                    cleaned_records |-> local.cleaned_records,
                    optional_columns |-> local.optional_columns]),
               "uploaded_file_name", Files[widgets.file].name),
           "date_selected", FALSE)
  /\ GoesOn("dates", {}, {"store"})
  /\ UNCHANGED <<widgets, click, local>>
  /\ UNCHANGED events
  /\ AppFixed

\* Lines 128 and 137: _handle_date_selection
HandleDateSelection ==
  /\ at = "dates"
  /\ local' = [local EXCEPT !.selection =
                 handle_date_selection(local.headers, local.cleaned_records, widgets.date)]
  /\ at' = "selected"
  /\ UNCHANGED <<session, widgets, click, last>>
  /\ UNCHANGED events
  /\ AppFixed

\* Lines 127-144: the selected date goes to the session; a date other than the
\* session's drops the reports and asks for a rerun
DateSelected ==
  /\ at = "selected"
  /\ IF local.selection.stop
       THEN Ends("stopped", {}, {}) /\ UNCHANGED session
     ELSE IF ~GetD(session, "date_selected", FALSE)
       THEN IF local.selection.column # NoColumn /\ local.selection.date # None
              THEN /\ session' = Put(Put(Put(session, "date_column", local.selection.column),
                                         "selected_date", local.selection.date),
                                     "date_selected", TRUE)
                   /\ at' = "filter"
                   /\ last' = [last EXCEPT !.date_options = local.selection.options]
              ELSE Ends("no_date", {}, {}) /\ UNCHANGED session
     ELSE IF local.selection.date # GetD(session, "selected_date", None)
       THEN /\ session' = Del(Put(Put(session, "date_column", local.selection.column),
                                  "selected_date", local.selection.date),
                              {"reports"})
            /\ at' = "idle"
            /\ last' = [last EXCEPT !.outcome = "rerun",
                                    !.date_options = local.selection.options]
     ELSE /\ at' = "filter"
          /\ last' = [last EXCEPT !.date_options = local.selection.options]
          /\ UNCHANGED session
  /\ UNCHANGED <<widgets, click, local>>
  /\ UNCHANGED events
  /\ AppFixed

\* Lines 146-151: the records of the selected date and of its month-to-date window
FilterRecords ==
  /\ at = "filter"
  /\ local' = [local EXCEPT
                 !.date_filtered_records =
                    filter_records_by_date(local.cleaned_records,
                                           GetD(session, "selected_date", None),
                                           GetD(session, "date_column", NoColumn)),
                 !.mtd_filtered_records =
                    filter_records_mtd(local.cleaned_records,
                                       GetD(session, "selected_date", None),
                                       GetD(session, "date_column", NoColumn))]
  /\ at' = "generate"
  /\ UNCHANGED <<session, widgets, click, last>>
  /\ UNCHANGED events
  /\ AppFixed

\* Lines 159-170 with _generate_and_display_reports, lines 689-705
GenerateReports ==
  /\ at = "generate"
  /\ IF click = "generate"
       THEN /\ session' =
                 Put(Put(Put(session, "reports",
                             reports_of(local.date_filtered_records,
                                        local.mtd_filtered_records,
                                        local.cleaned_records,
                                        show_optional_report_selection(local.optional_columns,
                                                                       widgets))),
                         "date_records", local.date_filtered_records),
                     "mtd_records", local.mtd_filtered_records)
            /\ GoesOn("download", {"generate"} \cup optional_inputs(local.optional_columns),
                      {"generate"})
     ELSE IF "reports" \in DOMAIN session
       THEN /\ GoesOn("download", {"generate"} \cup optional_inputs(local.optional_columns), {})
            /\ UNCHANGED session
     ELSE /\ Ends("done", {"generate"} \cup optional_inputs(local.optional_columns), {})
          /\ UNCHANGED session
  /\ UNCHANGED <<widgets, click, local>>
  /\ UNCHANGED events
  /\ AppFixed

\* Lines 764-784, _show_download_section: the Campaign ID input; the download
\* button needs a Campaign ID
ShowDownloadSection ==
  /\ at = "download"
  /\ IF widgets.campaign /\ GetD(session, "selected_date", None) # None
       THEN GoesOn("export", {"campaign"}, {})
       ELSE Ends("done", {"campaign"}, {})
  /\ UNCHANGED <<session, widgets, click, local>>
  /\ UNCHANGED events
  /\ AppFixed

\* Lines 797-819, _render_download_button: create_excel_report returns the
\* workbook's bytes
CreateExcelReport ==
  /\ at = "export"
  /\ Ends("done", {"download"}, {"export"})
  /\ UNCHANGED <<session, widgets, click, local>>
  /\ UNCHANGED events
  /\ AppFixed

\* create_excel_report raises (openpyxl refuses a cell's value or fails to save):
\* the exception reaches lines 174-176
CreateExcelReportRaises ==
  /\ at = "export"
  /\ Ends("unexpected_error", {}, {})
  /\ UNCHANGED <<session, widgets, click, local>>
  /\ UNCHANGED events
  /\ AppFixed

AppNext ==
  \/ SelectFile
  \/ ClickClear
  \/ ChooseCorrection
  \/ ClickApply
  \/ ClickSkip
  \/ SelectDate
  \/ EnterCampaignId
  \/ ToggleOptionalReport
  \/ ClickGenerate
  \/ Rerun
  \/ RenderUpload
  \/ LoadFile
  \/ FindLeadStatusIssues
  \/ ShowCorrectionInterface
  \/ CorrectionButtons
  \/ UseCorrectedRecords
  \/ ValidateData
  \/ CleanData
  \/ StoreProcessedData
  \/ HandleDateSelection
  \/ DateSelected
  \/ FilterRecords
  \/ GenerateReports
  \/ ShowDownloadSection
  \/ CreateExcelReport
  \/ CreateExcelReportRaises

AppSpec == AppInit /\ [][AppNext]_vars

(***************************************************************************)
(* The functions on their own: one call of a function on arguments drawn   *)
(* from bounded sets, with its result.                                     *)
(***************************************************************************)
CallInit ==
  /\ PipelineIdle
  /\ valid_order = ACCEPTED_LEAD_STATUS
  /\ AppIdle
Called(fn, args, result) ==
  /\ call = NoCall
  /\ call' = [fn |-> fn, args |-> args, result |-> result]
  /\ UNCHANGED <<pipeline_vars, valid_order, app_vars>>

\* The Lead Status values: the texts of at most MaxStatusLen characters of
\* StatusChars, some whole words, and a number
MaxStatusLen == 3
StatusChars == {"q", "d", "i", "s", "D", "Q", " "}
T_Disposed == <<"D","i","s","p","o","s","e","d">>
T_DQ == <<"D","Q">>
T_dqx == <<" ","d","q","x"," ">>
T_Quit == <<"Q","u","i","t">>
T_Unqualified == <<"U","n","q","u","a","l","i","f","i","e","d">>
StatusValues ==
  {Str(t) : t \in SeqsUpTo(StatusChars, MaxStatusLen)
                    \cup {T_Disposed, T_DQ, T_dqx, T_Quit, T_Unqualified, T_Qual, T_Junk,
                          T_Qualified, T_Disqualified, T_qualified, T_disqualified}}
    \cup {Num(5), Num(0)}

\* Lines 76-98 of find_lead_status_issues for one status
IssueOf ==
  /\ call = NoCall
  /\ \E status \in StatusValues :
       \E order \in ValidOrders :
         Called("issue_of", <<status, order>>, issue_of(status, 1, order))

\* The records the report generators are called on: at most MaxReportRecords
\* of ReportRows
MaxReportRecords == 3
ReportRows ==
  { Tagged(Row(Str(T_Qualified), Str(T_A), Str(T_Dash), Str(T_Nov06_iso)), Str(T_S1), Str(T_P1)),
    Tagged(Row(Str(T_qualified), Str(T_B), Str(T_Dash), Str(T_Nov03_iso)), Str(T_S2), None),
    Row(Str(T_Disqualified), Str(T_A), Str(T_email), Str(T_Nov06_iso)),
    Row(Str(T_Disqualified), Str(T_B), Str(T_geo), Str(T_na)),
    Row(Str(T_Junk), Str(T_A), Str(T_geo), Str(T_Nov03_iso)) }
ReportInputs == SeqsUpTo(ReportRows, MaxReportRecords)
\* The orders the records of a list can come in
Reordered(recs) ==
  {[i \in DOMAIN recs |-> recs[f[i]]] :
     f \in {g \in [DOMAIN recs -> DOMAIN recs] : \A i, j \in DOMAIN recs : g[i] = g[j] => i = j}}
\* The five report generators on the same records
all_reports(recs) ==
  [name \in {"combined", "agent", "dq_reason", "segment", "jt_persona"} |->
     CASE name = "combined" -> generate_combined_qa_report(recs, recs)
       [] name = "agent" -> generate_agent_breakdown_report(recs)
       [] name = "dq_reason" -> generate_dq_reason_report(recs)
       [] name = "segment" -> generate_segment_wise_report(recs)
       [] name = "jt_persona" -> generate_jt_persona_wise_report(recs)]

\* The report generators on a list of records and on the same records in another order
ReportsOfReordered ==
  \E recs \in ReportInputs :
    \E other \in Reordered(recs) :
      Called("reports", <<recs, other>>,
             [second |-> all_reports(other), first |-> all_reports(recs)])

\* The leads of two agents, each with some qualified, disqualified and other
\* leads: 3 of 8 and 5 of 13 disqualified both display as 38%
Repeat(row, n) == [i \in 1..n |-> row]
AgentLeads(agent, n) ==
  Repeat(Row(Str(T_Qualified), agent, Str(T_Dash), Str(T_Nov06_iso)), n[1])
    \o Repeat(Row(Str(T_Disqualified), agent, Str(T_email), Str(T_Nov06_iso)), n[2])
    \o Repeat(Row(Str(T_Junk), agent, Str(T_Dash), Str(T_Nov06_iso)), n[3])
AgentCounts == {<<5, 3, 0>>, <<8, 5, 0>>, <<1, 1, 1>>, <<0, 0, 1>>, <<0, 1, 0>>, <<1, 0, 0>>}
AgentInputs == {AgentLeads(Str(T_A), a) \o AgentLeads(Str(T_B), b) : a, b \in AgentCounts}

\* generate_agent_breakdown_report on the leads of two agents
AgentBreakdown ==
  \E recs \in AgentInputs :
    Called("agent_breakdown", <<recs>>, generate_agent_breakdown_report(recs))

\* Leads with their tags: a segment and a persona, a persona of None and a date
\* that does not parse, a blank segment and no persona column, a disqualified lead
TaggedRows ==
  { Tagged(Row(Str(T_Qualified), Str(T_A), Str(T_Dash), Str(T_Nov06_iso)), Str(T_S1), Str(T_P1)),
    Tagged(Row(Str(T_qualified), Str(T_B), Str(T_Dash), Str(T_na)), Str(T_S2), None),
    SetItem(Row(Str(T_Qualified), Str(T_B), Str(T_Dash), Str(T_Nov03_iso)),
            "Segment Tagging", Str(<<" ">>)),
    Tagged(Row(Str(T_Disqualified), Str(T_A), Str(T_geo), Str(T_Nov03_iso)),
           Str(T_S1), Str(T_P1)) }
TaggedInputs == SeqsUpTo(TaggedRows, MaxReportRecords)

\* run, lines 146-170: the records of the selected date and of the month to
\* date, and the reports made of them and of all the records
GenerateAndDisplayReports ==
  \E recs \in TaggedInputs :
    \E selected \in SelectedDates :
      \E window \in {[date_records |-> filter_records_by_date(recs, selected, "Audit Date"),
                       mtd_records |-> filter_records_mtd(recs, selected, "Audit Date")]} :
        Called("generate_and_display_reports", <<recs, selected>>,
               [date_records |-> window.date_records,
                mtd_records |-> window.mtd_records,
                reports |-> reports_of(window.date_records, window.mtd_records, recs,
                                       [segment |-> TRUE, jt_persona |-> TRUE])])

\* The subsequence of seq at the indices of keep
RECURSIVE Pick(_, _)
Pick(seq, keep) ==
  IF seq = <<>> THEN <<>>
  ELSE Pick(SubSeq(seq, 1, Len(seq) - 1), keep)
         \o (IF Len(seq) \in keep THEN <<seq[Len(seq)]>> ELSE <<>>)

\* The DataProcessor as an object: self.date_column and self.parsed_dates
\* (lines 23-26).  A method gives what it returns and what it leaves of self
\* and of the list of records it was passed.
Processor(column, dates) == [date_column |-> column, parsed_dates |-> dates]
\* parse_dates_from_records, lines 237-253: the parsed date of each index whose
\* date parses, kept in self.parsed_dates
parse_dates_from_records(recs, column) ==
  [i \in {j \in DOMAIN recs : parse_date(Get(recs[j], column)) # None} |->
     parse_date(Get(recs[i], column))]
\* A wrong filter: it takes the dates from self.parsed_dates, by index
by_date_of_parsed_dates(self, recs, target_date) ==
  [records |-> recs, self |-> self,
   returned |-> Pick(recs, {i \in DOMAIN recs \cap DOMAIN self.parsed_dates :
                              self.parsed_dates[i] = target_date})]
\* filter_records_by_date as a method (lines 263-279)
by_date(self, recs, target_date) ==
  [records |-> recs, self |-> self,
   returned |-> filter_records_by_date(recs, target_date, self.date_column)]
\* filter_records_mtd as a method (lines 281-316)
mtd(self, recs, selected) ==
  [records |-> recs, self |-> self,
   returned |-> filter_records_mtd(recs, selected, self.date_column)]

\* The records the filters are called on: a date in two formats, a date of the
\* month before, a date that does not parse, a date of None and a record
\* without the date column
MaxFilterRecords == 2
FilterRows ==
  { Row(Str(T_Qualified), Str(T_A), Str(T_Dash), Str(T_Nov06_iso)),
    Row(Str(T_Disqualified), Str(T_A), Str(T_email), Str(T_Nov06_abbr)),
    Row(Str(T_qualified), Str(T_A), None, Str(T_Oct28_slash)),
    Row(Str(T_Junk), None, Str(T_email), Str(T_na)),
    Row(None, Str(<<" ">>), None, None),
    [k \in {"Lead Status", "Agent Name"} |-> Str(T_Qualified)] }
FilterInputs == SeqsUpTo(FilterRows, MaxFilterRecords)
\* What self.parsed_dates can hold when a filter is called: nothing, or the
\* dates of the records of an earlier file
ParsedDates ==
  { <<>>, parse_dates_from_records(SubSeq(ScenarioRows, 1, 2), "Audit Date") }

\* Both filters called twice in turn on one processor and one list of records,
\* as run does at lines 148-151 on every run of the script
FilterTwice ==
  /\ call = NoCall
  /\ \E recs \in FilterInputs :
       \E selected \in SelectedDates :
         \E column \in DateColumns :
           \E dates \in ParsedDates :
             \E a \in {by_date(Processor(column, dates), recs, selected)} :
               \E b \in {mtd(a.self, a.records, selected)} :
                 \E c \in {by_date(b.self, b.records, selected)} :
                   Called("filter_records", <<recs, selected, column, dates>>,
                          <<a, b, c, mtd(c.self, c.records, selected)>>)

\* The workbooks load_and_parse_excel is called on.  A sheet has at most
\* MaxSheetRows rows: header rows, blank rows and rows of data in any order.
MaxSheetRows == 4
HeaderRow == <<Str(<<" ">> \o T_LeadStatus), None>>
BlankRow == <<None, None>>
DataRow == <<Str(T_Qualified), Str(T_A)>>
SheetRows == SeqsUpTo({HeaderRow, BlankRow, DataRow}, MaxSheetRows)
T_Sheet1 == <<"Q","u","a","l","i","f","i","e","d">>
T_Sheet2 == <<" ","D","I","S","Q","U","A","L","I","F","I","E","D"," ">>
T_Sheet3 == <<"S","u","m","m","a","r","y">>
Worksheet(sheet_title, rows) == [title |-> sheet_title, rows |-> rows]
\* The sheets that come second in a workbook
SecondSheets ==
  {Worksheet(t, rows) :
     t \in {T_Sheet1, T_Sheet2, T_Sheet3},
     rows \in {<<>>, <<HeaderRow>>, <<HeaderRow, DataRow>>, <<HeaderRow, BlankRow, DataRow>>}}
\* Workbooks of one or two sheets of different titles, of a size within the
\* limit; one-sheet workbooks also of a size over it
Workbooks ==
  LET first == {Worksheet(t, rows) : t \in {T_Sheet1, T_Sheet2, T_Sheet3}, rows \in SheetRows}
      both == {w \in first \X SecondSheets : w[1].title # w[2].title}
      limit == MAX_FILE_SIZE_MB * 1024 * 1024
  IN {[size |-> limit, worksheets |-> w] : w \in {<<a>> : a \in first} \cup both}
       \cup {[size |-> limit + 1, worksheets |-> <<a>>] : a \in first}

\* load_and_parse_excel on a workbook
LoadAndParseExcel ==
  /\ call = NoCall
  /\ \E uploaded_file \in Workbooks :
       Called("load_and_parse_excel", <<uploaded_file>>, load_and_parse_excel(uploaded_file))

\* The records clean_data is called on: each of the three key fields is absent
\* or holds None, a blank, a dash, a dash between blanks, a text with blanks
\* around it or a number; the Audit Date is there as well
Absent == [t |-> "absent"]
T_DashInBlanks == <<" ">> \o T_Dash \o <<" ">>
CleanValues ==
  {Absent, None, Str(<<" ">>), Str(T_Dash), Str(T_DashInBlanks),
   Str(<<" ">> \o T_email \o <<" ">>), Num(5)}
KeyFields(status, agent, reason) ==
  LET given == [k \in {"Lead Status", "Agent Name", "DQ Reason"} |->
                  CASE k = "Lead Status" -> status
                    [] k = "Agent Name" -> agent
                    [] k = "DQ Reason" -> reason]
  IN [k \in {x \in DOMAIN given : given[x] # Absent} \cup {"Audit Date"} |->
        IF k = "Audit Date" THEN Str(T_Nov06_iso) ELSE given[k]]
CleanInputs ==
  LET one == {KeyFields(a, b, c) : a, b, c \in CleanValues}
  IN {<<>>} \cup {<<r>> : r \in one} \cup {<<KeyFields(None, None, None), r>> : r \in one}

\* clean_data on a list of records: the records of the list it returns
CleanRecords ==
  /\ call = NoCall
  /\ \E contents \in CleanInputs :
       LET a == AllocAll(<<>>, contents, <<>>)
           r == clean_data(a.heap, a.id)
       IN Called("clean_data", <<contents>>, Records(r.heap, r.id))

\* The values parse_date is called on: the examples of the formats, the texts
\* of two numeric fields and a year with "/" or "-" between them, and the
\* serial day numbers up to MaxSerial with some larger ones
T_Nov06_dmy == <<"0","6","-","1","1","-","2","0","2","5">>
T_Nov06_time == T_Nov06_iso \o <<" ","0","0",":","0","0",":","0","0">>
T_Jun11_slash == <<"1","1","/","0","6","/","2","0","2","5">>
FieldTexts ==
  { <<"0">>, <<"1">>, <<"2">>, <<"0","2">>, <<"0","6">>, <<"1","1">>, <<"1","2">>,
    <<"1","3">>, <<"2","5">>, <<"2","9">>, <<"3","0">>, <<"3","1">> }
YearTexts == { <<"2","0","2","5">>, <<"2","0","2","4">>, <<"2","5">> }
Separators == {"/", "-"}
NumericDate(a, b, y, sep) == a \o <<sep>> \o b \o <<sep>> \o y
MaxSerial == 62
LargeSerials == {365, 366, 45000, 2958465, 2958466, 99999999}
DateValues ==
  {Str(t) : t \in {T_Nov06_abbr, T_Nov06_dmy, T_Nov06_iso, T_Nov06_time, T_Jun11_slash,
                   T_na}}
    \cup {Str(NumericDate(a, b, y, sep)) :
            a \in FieldTexts, b \in FieldTexts, y \in YearTexts, sep \in Separators}
    \cup {Str(IntToStr(n)) : n \in (0..MaxSerial) \cup LargeSerials}
    \cup {Num(61), None}

\* parse_date on a value
ParseDate ==
  /\ call = NoCall
  /\ \E date_value \in DateValues :
       Called("parse_date", <<date_value>>, parse_date(date_value))

\* Workbooks whose two sheets differ in their headers: a header cell of None,
\* the same header in another case in the other sheet or twice in one sheet;
\* a sheet is its header alone, or has a row of data, a blank row before the
\* header or a blank row after it
HeaderRows ==
  { HeaderRow,
    <<Str(lower(T_LeadStatus)), Str(T_AgentName), None>>,
    <<None, Str(T_LEAD_STATUS), Str(T_LeadStatus)>> }
HeaderSheetRows ==
  UNION {{<<h>>, <<h, DataRow>>, <<BlankRow, h, DataRow>>, <<h, BlankRow>>} : h \in HeaderRows}
HeaderWorkbooks ==
  LET limit == MAX_FILE_SIZE_MB * 1024 * 1024
  IN {[size |-> limit, worksheets |-> <<Worksheet(t[1], q), Worksheet(t[2], d)>>] :
        t \in {<<T_Sheet1, T_Sheet2>>, <<T_Sheet2, T_Sheet1>>},
        q \in HeaderSheetRows, d \in HeaderSheetRows}

\* load_and_parse_excel on a workbook of two sheets with headers of their own
LoadHeaders ==
  /\ call = NoCall
  /\ \E uploaded_file \in HeaderWorkbooks :
       Called("load_and_parse_excel", <<uploaded_file>>, load_and_parse_excel(uploaded_file))

\* The spellings of the status column in a sheet, one of them not the
\* required column's
T_Status == <<"S","t","a","t","u","s">>
StatusSpellings == {T_LeadStatus, T_LEAD_STATUS, lower(T_LeadStatus), T_Status}
\* The column name of a header text, as the key of a record
ColumnOf(header) ==
  CASE header = Str(T_LeadStatus) -> "Lead Status"
    [] header = Str(T_LEAD_STATUS) -> "LEAD STATUS"
    [] header = Str(lower(T_LeadStatus)) -> "lead status"
    [] header = Str(T_Status) -> "Status"
    [] header = Str(T_AgentName) -> "Agent Name"
    [] header = Str(T_DQReason) -> "DQ Reason"
    [] header = Str(T_row_number) -> "_row_number"
    [] header = Str(T_sheet_name) -> "_sheet_name"
\* A parsed record as the dict of its columns
RecordOf(items) ==
  [k \in {ColumnOf(items[i][1]) : i \in DOMAIN items} |->
     items[CHOOSE i \in DOMAIN items : ColumnOf(items[i][1]) = k][2]]
\* Workbooks of a Qualified and a Disqualified sheet, each with its own
\* spelling of the status column and one row of data
SpelledSheet(sheet_title, spelling, status, reason) ==
  Worksheet(sheet_title,
            << <<Str(spelling), Str(T_AgentName), Str(T_DQReason)>>,
               <<status, Str(T_A), reason>> >>)
SpelledWorkbooks ==
  {[size |-> 1,
    worksheets |-> <<SpelledSheet(T_Sheet1, q, qs, None),
                     SpelledSheet(T_Sheet2, d, ds, Str(T_email))>>] :
     q \in StatusSpellings, d \in StatusSpellings,
     qs \in {Str(T_Qualified), None}, ds \in {Str(T_Disqualified), Str(<<" ">>)}}

\* run, lines 72-108: the file is loaded, its headers and records are
\* validated, and the records are cleaned
ValidateAndClean ==
  /\ call = NoCall
  /\ \E uploaded_file \in SpelledWorkbooks :
       LET loaded == load_and_parse_excel(uploaded_file)
           column_names == [i \in DOMAIN loaded.headers |-> ColumnOf(loaded.headers[i])]
           parsed == [i \in DOMAIN loaded.records |-> RecordOf(loaded.records[i])]
       IN Called("validate_and_clean", <<uploaded_file>>,
                 [records |-> parsed,
                  cleaned_records |-> clean_values(parsed),
                  headers |-> column_names,
                  raised |-> loaded.raised \/ validate_data(column_names, parsed)])

CallNext ==
  \/ IssueOf
  \/ ReportsOfReordered
  \/ AgentBreakdown
  \/ GenerateAndDisplayReports
  \/ FilterTwice
  \/ LoadAndParseExcel
  \/ CleanRecords
  \/ ParseDate
  \/ LoadHeaders
  \/ ValidateAndClean

CallSpec == CallInit /\ [][CallNext]_vars

(***************************************************************************)
(* Properties of the pipeline                                              *)
(***************************************************************************)
RECURSIVE CellSum(_, _)
CellSum(rows, col) == IF rows = <<>> THEN 0 ELSE Head(rows)[col].n + CellSum(Tail(rows), col)
\* The rows of a report between its header and its Grand Total row
DataRows(report) == SubSeq(report, 2, Len(report) - 1)
LastRow(report) == report[Len(report)]
\* The report's last row is a Grand Total row whose cells of cols are the sums
\* of the cells above them
TotalsAreSums(report, cols) ==
  Len(report) > 1 =>
    /\ LastRow(report)[1] = Str(T_GrandTotal)
    /\ \A c \in cols : LastRow(report)[c] = Num(CellSum(DataRows(report), c))

\* C1: in the agent, DQ reason, segment and JT persona reports the count cells
\* of the Grand Total row are the exact sums of their columns, and the rate of
\* the agent report's Grand Total row is the total disqualified divided by the
\* total (not the mean of the rates of the rows).
C1_GrandTotalSums ==
  pc = "reported" =>
    /\ TotalsAreSums(reports.agent, {2, 3, 4})
    /\ TotalsAreSums(reports.dq_reason, {2})
    /\ TotalsAreSums(reports.segment, {2})
    /\ TotalsAreSums(reports.jt_persona, {2})
    /\ Len(reports.agent) > 1 =>
         LastRow(reports.agent)[5] =
           percent_text(<<CellSum(DataRows(reports.agent), 2),
                          CellSum(DataRows(reports.agent), 4)>>)

\* Every one of the four reports has two rows or more above its Grand Total,
\* and the agents differ in both their total and their rate
C1_Witness ==
  /\ pc = "reported"
  /\ \A name \in {"agent", "dq_reason", "segment", "jt_persona"} : Len(reports[name]) >= 4
  /\ reports.agent[2][4] # reports.agent[3][4]
  /\ reports.agent[2][5] # reports.agent[3][5]

\* Whether a record's date parses, and the day number of the date
Parses(record, column) == parse_date(Get(record, column)) # None
DayNumber(d) == DaysFromCivil(d.y, d.m, d.d)
DayOf(record, column) == DayNumber(parse_date(Get(record, column)))
\* The records of the month-to-date window: from the first day of the month of
\* the earliest parsed date to the selected date
WindowOf(recs, dates, selected) ==
  LET parsed == {i \in DOMAIN recs : dates[i] # None}
      first == CHOOSE i \in parsed : \A j \in parsed : DateLE(dates[i], dates[j])
      start == Date(dates[first].y, dates[first].m, 1)
  IN IF parsed = {} THEN <<>>
     ELSE Pick(recs, {i \in parsed : DateLE(start, dates[i]) /\ DateLE(dates[i], selected)})
\* The parsed date of each record, None where the date does not parse
DatesOf(recs, column) == [i \in DOMAIN recs |-> parse_date(Get(recs[i], column))]

\* C2: filter_records_mtd returns exactly the records whose parsed date d has
\* first_day_of_month(earliest parsed date) <= d <= selected_date, in their
\* order; nothing when no date parses; never a record whose date does not parse.
C2_MtdWindow ==
  pc \in {"filtered", "reported"} =>
    /\ \A dates \in {DatesOf(Records(heap, cleaned), date_column)} :
         mtd_records = WindowOf(Records(heap, cleaned), dates, selected_date)
    /\ \A i \in DOMAIN mtd_records : Parses(mtd_records[i], date_column)

\* The window starts in a month before the selected date's, keeps a record of
\* that month and leaves out a record after the selected date
C2_Witness ==
  /\ pc = "filtered"
  /\ \E i \in DOMAIN mtd_records :
       parse_date(Get(mtd_records[i], date_column)).m < selected_date.m
  /\ \E i \in DOMAIN Records(heap, cleaned) :
       /\ Parses(Records(heap, cleaned)[i], date_column)
       /\ DayOf(Records(heap, cleaned)[i], date_column) > DayNumber(selected_date)

\* The number of records whose Lead Status reads "qualified" whatever its case
\* and surrounding blanks
RECURSIVE QualifiedIn(_)
QualifiedIn(recs) ==
  IF recs = <<>> THEN 0
  ELSE QualifiedIn(Tail(recs))
         + (IF /\ "Lead Status" \in DOMAIN Head(recs)
               /\ IsStr(Head(recs)["Lead Status"])
               /\ lower(strip(Head(recs)["Lead Status"].s)) = T_qualified
              THEN 1 ELSE 0)
\* The run of the end-to-end scenario: its ten records, the date 2025-11-06
ScenarioRun ==
  /\ Records(heap, records) = tag_rows(ScenarioRows, T_Qualified)
  /\ date_column = "Audit Date"
  /\ selected_date = Date(2025, 11, 6)

\* C3: the combined summary's data row is [count(mtd), count(mtd qualified),
\* count(date), count(date qualified)]; the end-to-end scenario (ten records,
\* six of 2025-11-06 with four qualified, four of 2025-11-03 with three
\* qualified, the date 2025-11-06 selected) gives [10, 7, 6, 4].
C3_CombinedRow ==
  pc = "reported" =>
    /\ Len(reports.combined) = 2
    /\ reports.combined[2] =
         <<Num(Len(mtd_records)), Num(QualifiedIn(mtd_records)),
           Num(Len(date_records)), Num(QualifiedIn(date_records))>>
    /\ ScenarioRun => reports.combined[2] = <<Num(10), Num(7), Num(6), Num(4)>>

C3_Witness == pc = "reported" /\ ScenarioRun

\* The records whose exact Lead Status is a key of the correction map
KeyOf(record, map) ==
  {k \in DOMAIN map : "Lead Status" \in DOMAIN record /\ map[k][1] = record["Lead Status"]}
Corrected(recs, map) == {i \in DOMAIN recs : KeyOf(recs[i], map) # {}}
\* The records with the statuses of the map's keys replaced by the map's values
ExpectedCorrected(recs, map) ==
  [i \in DOMAIN recs |->
     IF i \in Corrected(recs, map)
       THEN [k \in DOMAIN recs[i] |->
               IF k = "Lead Status" THEN map[CHOOSE x \in KeyOf(recs[i], map) : TRUE][2]
               ELSE recs[i][k]]
       ELSE recs[i]]
AfterCorrection == pc \in {"corrected", "recorrected", "cleaned", "filtered", "reported"}

\* C4: apply_corrections replaces the status exactly in the records whose exact
\* original status is a key of the map and leaves every other field and record
\* as it was; the count it returns is the number of records changed; an empty
\* map gives the input's records and the count 0; five records of 'Qual' under
\* {'Qual': 'Qualified'} give the count 5.
C4_Corrections ==
  AfterCorrection =>
    /\ Records(heap, corrected.id) = ExpectedCorrected(Records(heap, records), corrections)
    /\ corrected.count = Cardinality(Corrected(Records(heap, records), corrections))
    /\ corrected.count =
         Cardinality({i \in DOMAIN Records(heap, records) :
                        Records(heap, corrected.id)[i] # Records(heap, records)[i]})
    /\ corrections = <<>> =>
         Records(heap, corrected.id) = Records(heap, records) /\ corrected.count = 0
    /\ ( /\ Records(heap, records) = tag_rows(FiveQualRows, T_Qualified)
         /\ corrections = << <<Str(T_Qual), Str(T_Qualified)>> >> )
       => corrected.count = 5

C4_Witness ==
  /\ pc = "corrected"
  /\ Records(heap, records) = tag_rows(FiveQualRows, T_Qualified)
  /\ corrections = << <<Str(T_Qual), Str(T_Qualified)>> >>
  /\ corrected.count = 5

\* C5: with a map whose keys are not accepted statuses and whose values are,
\* applying the corrections to the corrected records changes nothing and
\* reports 0 corrections.
C5_Idempotent ==
  pc = "recorrected" =>
    /\ Records(heap, recorrected.id) = Records(heap, corrected.id)
    /\ recorrected.count = 0

\* The first application changed a record and, the user keeping its status,
\* left another as it was
C5_Witness ==
  /\ pc = "recorrected"
  /\ corrected.count = 1
  /\ Len(found.issues) = 2

\* The list at out and its records are objects other than the list at in and
\* its records
Fresh(in, out) ==
  /\ out # in
  /\ Range(heap[out].items) \cap Range(heap[in].items) = {}

\* C6: clean_data and apply_corrections return fresh copies: the list returned
\* is not the list given (also under an empty correction map), its records are
\* not the records given, and the list and records given are as they were.
C6_FreshCopies ==
  /\ Records(heap, records) \in SampleRecordLists
  /\ AfterCorrection =>
       /\ Fresh(records, corrected.id)
       /\ Records(heap, corrected.id) = ExpectedCorrected(Records(heap, records), corrections)
  /\ pc = "recorrected" => Fresh(corrected.id, recorrected.id)
  /\ pc \in {"cleaned", "filtered", "reported"} => Fresh(corrected.id, cleaned)

\* apply_corrections was given records and an empty map
C6_Witness ==
  /\ pc = "corrected"
  /\ corrections = <<>>
  /\ heap[records].items # <<>>

\* C6 for the calls with a correction map that is not empty, and for clean_data
C6_FreshUnlessEmptyMap ==
  /\ Records(heap, records) \in SampleRecordLists
  /\ AfterCorrection =>
       /\ corrections # <<>> => Fresh(records, corrected.id)
       /\ Records(heap, corrected.id) = ExpectedCorrected(Records(heap, records), corrections)
  /\ pc = "recorrected" /\ corrections # <<>> => Fresh(corrected.id, recorrected.id)
  /\ pc \in {"cleaned", "filtered", "reported"} => Fresh(corrected.id, cleaned)

\* The Lead Status values of the records that are neither None nor accepted
InvalidStatuses(recs) ==
  {Get(recs[i], "Lead Status") : i \in DOMAIN recs} \ ({None} \cup Range(ACCEPTED_LEAD_STATUS))

\* C10: find_lead_status_issues gives exactly one issue per distinct exact
\* status value that is not accepted, with the number of records holding that
\* exact value; the exact 'Qualified' and 'Disqualified' give no issue; and
\* auto_suggestions holds exactly the issues that have an auto-suggestion.
C10_Issues ==
  pc # "parsed" =>
    /\ {found.issues[i].original : i \in DOMAIN found.issues}
         = InvalidStatuses(Records(heap, records))
    /\ Len(found.issues) = Cardinality(InvalidStatuses(Records(heap, records)))
    /\ \A i \in DOMAIN found.issues :
         /\ found.issues[i].count =
              Cardinality({r \in DOMAIN Records(heap, records) :
                             Get(Records(heap, records)[r], "Lead Status")
                               = found.issues[i].original})
         /\ found.issues[i].original \notin {Str(T_Qualified), Str(T_Disqualified)}
    /\ {found.auto_suggestions[i] : i \in DOMAIN found.auto_suggestions}
         = {<<found.issues[i].original, found.issues[i].auto_suggestion>> :
              i \in {j \in DOMAIN found.issues : found.issues[j].auto_suggestion # None}}
    /\ Len(found.auto_suggestions)
         = Cardinality({j \in DOMAIN found.issues : found.issues[j].auto_suggestion # None})

\* Two issues, one with an auto-suggestion and one without
C10_Witness ==
  /\ pc = "found"
  /\ Len(found.issues) = 2
  /\ Len(found.auto_suggestions) = 1

\* One issue that counts five records
C10_WitnessCount ==
  /\ pc = "found"
  /\ Len(found.issues) = 1
  /\ found.issues[1].count = 5
  /\ Len(found.auto_suggestions) = 1

\* The header of each report
HeaderOf(name) ==
  CASE name = "combined" ->
         <<Str(T_MTD_PRE_QA), Str(T_MTD_POST_QA), Str(T_PRE_QA), Str(T_POST_QA)>>
    [] name = "agent" ->
         <<Str(T_AgentName), Str(T_Disqualified), Str(T_Qualified), Str(T_GrandTotal),
           Str(T_ErrorPct)>>
    [] name = "dq_reason" -> <<Str(T_DQReason), Str(T_Disqualified), Str(T_ErrorPct)>>
    [] name = "segment" -> <<Str(T_SegmentWise), Str(T_QualifiedCount)>>
    [] name = "jt_persona" -> <<Str(T_JTPersonaTagging), Str(T_QualifiedCount)>>
\* The table ends in a Grand Total row when it has a data row
EndsInGrandTotal(report) == Len(report) > 1 => LastRow(report)[1] = Str(T_GrandTotal)

\* C13: every one of the five reports (combined summary, agent, DQ reason,
\* segment, JT persona) has its header as the first row and, when it has a data
\* row, a Grand Total row as its last row.
C13_HeaderAndGrandTotal ==
  pc = "reported" =>
    \A name \in {"combined", "agent", "dq_reason", "segment", "jt_persona"} :
      /\ reports[name][1] = HeaderOf(name)
      /\ EndsInGrandTotal(reports[name])

\* C13 (amended): every one of the five reports has its header as the first
\* row; the agent, DQ reason, segment and JT persona reports have, when they
\* have a data row, a Grand Total row as their last row, and no report without
\* data rows has one; the combined summary always has exactly one data row, of
\* four counts, and no Grand Total row.
C13_HeaderAndGrandTotalButCombined ==
  pc = "reported" =>
    /\ \A name \in {"combined", "agent", "dq_reason", "segment", "jt_persona"} :
         reports[name][1] = HeaderOf(name)
    /\ \A name \in {"agent", "dq_reason", "segment", "jt_persona"} :
         /\ EndsInGrandTotal(reports[name])
         /\ Len(reports[name]) # 2
         /\ \A i \in 1..(Len(reports[name]) - 1) : reports[name][i][1] # Str(T_GrandTotal)
    /\ Len(reports.combined) = 2
    /\ \A c \in 1..4 : reports.combined[2][c].t = "int"

\* A report with data rows beside a report without any
C13_Witness ==
  /\ pc = "reported"
  /\ Len(reports.agent) >= 3
  /\ Len(reports.dq_reason) >= 3
  /\ Len(reports.jt_persona) = 1

(***************************************************************************)
(* Properties of the application                                           *)
(***************************************************************************)
\* The selected workbook's records with the session's corrections applied
FileRecords == Files[widgets.file].records
FileRecordsAfterCorrection ==
  ExpectedCorrected(FileRecords, GetD(session, "correction_summary", <<>>))
\* The run ended, and it was a run on a selected workbook
RunEnded == at = "idle" /\ last.outcome \notin {"none", "instructions"}

\* C7: no report is produced for a file while an unresolved invalid Lead Status
\* remains: where a record of the selected file, after the corrections, holds a
\* status other than qualified and disqualified, the run that reaches the
\* validation ends in a ValidationError, no run stores processed_data and no
\* run generates the reports.
C7_NoReportWhileUnresolved ==
  RunEnded /\ validate_lead_status(FileRecordsAfterCorrection) =>
    /\ last.validated # <<>> => last.outcome = "validation_error"
    /\ "store" \notin last.steps
    /\ "generate" \notin last.steps

\* The reports are generated under the name of a file that holds 'Junk'
C7_Witness ==
  /\ RunEnded
  /\ validate_lead_status(FileRecordsAfterCorrection)
  /\ "generate" \in last.steps
  /\ session.uploaded_file_name = Files[widgets.file].name

\* The records a run validates: where one of them holds a status other than
\* qualified and disqualified the run ends in a ValidationError, stores no
\* processed_data and generates no report
C7_ValidatedRecords ==
  RunEnded /\ last.validated # <<>> /\ validate_lead_status(last.validated) =>
    /\ last.outcome = "validation_error"
    /\ "store" \notin last.steps
    /\ "generate" \notin last.steps
    /\ "processed_data" \in DOMAIN session =>
          /\ "processed_data" \in DOMAIN last.before
          /\ session.processed_data = last.before.processed_data

C7_ValidatedRecordsWitness ==
  /\ RunEnded
  /\ last.validated = FileRecords
  /\ validate_lead_status(last.validated)
  /\ GetD(session, "corrections_reviewed", FALSE)

\* C8: where a run ends in an unexpected error the session is the session
\* before the run.
C8_ErrorLeavesSession ==
  at = "idle" /\ last.outcome = "unexpected_error" => session = last.before

\* A run that changed the session ends in an unexpected error
C8_Witness ==
  /\ at = "idle"
  /\ last.outcome = "unexpected_error"
  /\ session # last.before

\* Every radio of the correction interface is at "Keep as is"
DeclinedAll ==
  /\ last.shown # <<>>
  /\ \A idx \in DOMAIN last.shown :
       /\ idx \in DOMAIN widgets.choices
       /\ widgets.choices[idx] = Len(options_of(last.shown[idx]))
\* The records the next run of the script takes for the selected workbook
NextRecords ==
  IF "corrected_records" \in DOMAIN session THEN session.corrected_records ELSE FileRecords

\* C9: where the user declines every correction the dataset is unchanged (the
\* session holds no corrected records, the next run takes the file's records)
\* and the Lead Status issues of these records are the issues the interface
\* showed: same original values, counts, auto-suggestions and fuzzy matches.
C9_Reentrant ==
  at = "idle" /\ DeclinedAll =>
    /\ "corrected_records" \notin DOMAIN session
    /\ NextRecords = FileRecords
    /\ find_lead_status_issues(NextRecords, valid_order).issues = last.shown

\* The user declined every correction and clicked Skip
C9_Witness ==
  /\ at = "idle"
  /\ DeclinedAll
  /\ "skip" \in last.steps

\* The records are the parsed ones but for corrected Lead Status values
DerivedFrom(stored, parsed) ==
  /\ Len(stored) = Len(parsed)
  /\ \A i \in DOMAIN parsed :
       /\ DOMAIN stored[i] = DOMAIN parsed[i]
       /\ \A k \in DOMAIN parsed[i] \ {"Lead Status"} : stored[i][k] = parsed[i][k]
\* The run stored processed_data for a file other than the one processed before
StoredAfterAnotherFile ==
  /\ "store" \in last.steps
  /\ "uploaded_file_name" \in DOMAIN last.before
  /\ last.before.uploaded_file_name # Files[widgets.file].name

\* C25: where a file is selected whose name is not that of the file processed
\* before, without a click on Clear, the records and cleaned records stored in
\* processed_data come from the parse of the selected file, not from the
\* corrected records kept for the file before.
C25_RecordsOfSelectedFile ==
  StoredAfterAnotherFile =>
    /\ DerivedFrom(session.processed_data.records, FileRecords)
    /\ session.processed_data.cleaned_records = clean_values(session.processed_data.records)
    /\ "corrected_records" \in DOMAIN last.before =>
         session.processed_data.records # last.before.corrected_records

\* processed_data of the selected file holds the corrected records of the file
\* before, which are not records of the selected file
C25_Witness ==
  /\ StoredAfterAnotherFile
  /\ "corrected_records" \in DOMAIN last.before
  /\ session.processed_data.records = last.before.corrected_records
  /\ ~DerivedFrom(session.processed_data.records, FileRecords)
  /\ session.uploaded_file_name = Files[widgets.file].name

\* Without corrected records in the session the stored records are the parsed
\* records of the selected file
C25_RecordsOfFileWithoutCorrected ==
  ("store" \in last.steps /\ "corrected_records" \notin DOMAIN session) =>
    session.processed_data.records = FileRecords

\* The selected file has Lead Status issues
FileHasIssues == find_lead_status_issues(FileRecords, valid_order).issues # <<>>

\* C26: the run reaches _validate_data for a file with Lead Status issues only
\* where the correction interface was shown for that file and Apply or Skip
\* was clicked for it.
C26_ReviewedBeforeValidation ==
  (at = "validate" /\ FileHasIssues) => widgets.file \in last.reviewed

\* The run loaded a file with issues and reaches _validate_data, and neither
\* was the interface shown in this run nor Apply or Skip ever clicked for the
\* file
C26_Witness ==
  /\ at = "validate"
  /\ "load" \in last.steps
  /\ FileHasIssues
  /\ last.shown = <<>>
  /\ widgets.file \notin last.reviewed

\* In a session that held no corrections_reviewed when the file was loaded the
\* validation of a file with issues comes after a click for that file
C26_ReviewedInFreshSession ==
  (at = "validate" /\ FileHasIssues /\ "corrections_reviewed" \notin DOMAIN last.before
     /\ widgets.file \notin last.reviewed)
    => FALSE

\* The reports made of the cleaned records the run works on, filtered with
\* the session's date column and selected date
ReportsOfSession(optional_reports) ==
  reports_of(filter_records_by_date(local.cleaned_records,
                                    GetD(session, "selected_date", None),
                                    GetD(session, "date_column", NoColumn)),
             filter_records_mtd(local.cleaned_records,
                                GetD(session, "selected_date", None),
                                GetD(session, "date_column", NoColumn)),
             local.cleaned_records, optional_reports)

\* C27: where the download section is offered, the session's reports are the
\* reports of the records filtered with the session's date column and
\* selected date; reports made for another date are gone by then.
C27_ReportsOfSelectedDate ==
  at = "download" =>
    \E optional_reports \in [segment : BOOLEAN, jt_persona : BOOLEAN] :
      session.reports = ReportsOfSession(optional_reports)

\* The download section is offered in a run that stored another file's data
\* and generated no report: the session's reports are those of the file before
C27_Witness ==
  /\ at = "download"
  /\ "store" \in last.steps
  /\ "generate" \notin last.steps
  /\ "reports" \in DOMAIN last.before
  /\ session.reports = last.before.reports
  /\ \A optional_reports \in [segment : BOOLEAN, jt_persona : BOOLEAN] :
       session.reports # ReportsOfSession(optional_reports)

\* The reports a run generates are those of the session's date
C27_GeneratedReports ==
  (at = "download" /\ "generate" \in last.steps) =>
    \E optional_reports \in [segment : BOOLEAN, jt_persona : BOOLEAN] :
      session.reports = ReportsOfSession(optional_reports)

(***************************************************************************)
(* Properties of the functions                                             *)
(***************************************************************************)
\* The text begins with (or is) one of the words
BeginsWithAny(text, words) ==
  \E w \in words : Len(w) <= Len(text) /\ \A i \in DOMAIN w : text[i] = w[i]
QualifiedWords ==
  {T_qualified, <<"q","u","a","l","i","f","y">>, <<"q","u","a","l">>, <<"q">>}
DisqualifiedWords ==
  {T_disqualified, <<"d","i","s","q","u","a","l","i","f","y">>,
   <<"d","i","s","q","u","a","l">>, <<"d","q">>, <<"d","i","s">>}
\* The trimmed lower-cased form of the status of the call
CalledStatus == strip(lower(str(call.args[1])))
InvalidStatusCalled ==
  /\ call.fn = "issue_of"
  /\ call.args[1] \notin {Str(T_Qualified), Str(T_Disqualified)}

\* C11: the auto-suggestion of an invalid status is 'Qualified' iff its trimmed
\* lower-cased form equals or starts with qualified, qualify, qual or q, it is
\* 'Disqualified' iff that form equals or starts with disqualified, disqualify,
\* disqual, dq or dis, and there is none otherwise; no value matches both
\* groups; 'Disposed' gets 'Disqualified', and a value that starts with d and
\* with neither dq nor dis gets none.
C11_AutoSuggestion ==
  InvalidStatusCalled =>
    /\ call.result.auto_suggestion = Str(T_Qualified)
         <=> BeginsWithAny(CalledStatus, QualifiedWords)
    /\ call.result.auto_suggestion = Str(T_Disqualified)
         <=> BeginsWithAny(CalledStatus, DisqualifiedWords)
    /\ call.result.auto_suggestion = None
         <=> /\ ~BeginsWithAny(CalledStatus, QualifiedWords)
             /\ ~BeginsWithAny(CalledStatus, DisqualifiedWords)
    /\ ~(BeginsWithAny(CalledStatus, QualifiedWords)
           /\ BeginsWithAny(CalledStatus, DisqualifiedWords))
    /\ call.args[1] = Str(T_Disposed) => call.result.auto_suggestion = Str(T_Disqualified)
    /\ (CalledStatus # <<>> /\ CalledStatus[1] = "d"
          /\ ~BeginsWithAny(CalledStatus, {<<"d","q">>, <<"d","i","s">>}))
         => call.result.auto_suggestion = None

\* 'Disposed' is suggested 'Disqualified'
C11_Witness ==
  /\ InvalidStatusCalled
  /\ call.args[1] = Str(T_Disposed)
  /\ call.result.auto_suggestion = Str(T_Disqualified)

\* A value that is only 'd' gets no suggestion
C11_WitnessD ==
  /\ InvalidStatusCalled
  /\ call.args[1] = Str(<<"d">>)
  /\ call.result.auto_suggestion = None

ReportNames == {"combined", "agent", "dq_reason", "segment", "jt_persona"}
\* C12: for any permutation of the records each of the five report generators
\* returns the identical table, the same rows in the same order.
C12_OrderIndependent ==
  call.fn = "reports" =>
    \A name \in ReportNames : call.result.first[name] = call.result.second[name]

\* The place of a row in a table
PlaceOf(table, row) == CHOOSE i \in DOMAIN table : table[i] = row
\* Two tables of the same header, the same data rows and the same last row, the
\* rows of different keys in the same order
SameUpToTies(t, u, SameKey(_, _)) ==
  /\ Len(t) = Len(u)
  /\ t[1] = u[1]
  /\ LastRow(t) = LastRow(u)
  /\ Range(t) = Range(u)
  /\ \A i, j \in 2..(Len(t) - 1) :
       i < j /\ ~SameKey(t[i], t[j]) => PlaceOf(u, t[i]) < PlaceOf(u, t[j])
SameRate(r, s) == r[2].n * s[4].n = s[2].n * r[4].n
SameCount(r, s) == r[2].n = s[2].n

\* C12 (amended): for any permutation of the records the combined summary is
\* identical, and each of the other four reports has the same header, the same
\* data rows and the same Grand Total row, with the rows of different sort keys
\* (rate for the agents, count for the reasons and the tags) in the same order;
\* only rows of equal sort key may change places.
C12_OrderIndependentUpToTies ==
  call.fn = "reports" =>
    /\ call.result.first.combined = call.result.second.combined
    /\ SameUpToTies(call.result.first.agent, call.result.second.agent, SameRate)
    /\ SameUpToTies(call.result.first.dq_reason, call.result.second.dq_reason, SameCount)
    /\ SameUpToTies(call.result.first.segment, call.result.second.segment, SameCount)
    /\ SameUpToTies(call.result.first.jt_persona, call.result.second.jt_persona, SameCount)

\* Two agents of equal rate change places with the order of the records, while
\* two segments of different counts keep theirs though the lesser is met first
C12_Witness ==
  /\ call.fn = "reports"
  /\ call.result.first.agent # call.result.second.agent
  /\ Len(call.result.first.segment) = 4
  /\ call.result.first.segment[2][2] # call.result.first.segment[3][2]
  /\ GetD(call.args[2][1], "Segment Tagging", None) = call.result.first.segment[3][1]

\* The records and the agent table of a call of the report generators
AgentCalled == call.fn \in {"reports", "agent_breakdown"}
AgentTable == IF call.fn = "reports" THEN call.result.first.agent ELSE call.result
AgentOf(record) == GetD(record, "Agent Name", Str(T_Blank))
Counted(recs, agent, status) ==
  Cardinality({i \in DOMAIN recs : AgentOf(recs[i]) = agent /\ IsStatus(recs[i], status)})
\* text is a whole percent nearest to num / den
IsWholePercentOf(text, num, den) ==
  \E p \in 0..100 :
    /\ text = Str(IntToStr(p) \o <<"%">>)
    /\ 2 * (100 * num - p * den) <= den
    /\ 2 * (p * den - 100 * num) <= den

\* C14: in the agent breakdown an agent has a row iff it has a record of
\* normalized status qualified or disqualified; records of any other status add
\* to no count; a row's rate is disqualified / (qualified + disqualified); the
\* data rows are in descending order of the unrounded rate, also when two rates
\* display as the same whole percent; the rate cell is a whole-percent string.
C14_AgentBreakdown ==
  AgentCalled =>
    \A rows \in {DataRows(AgentTable)} :
      /\ {rows[i][1] : i \in DOMAIN rows}
           = {AgentOf(call.args[1][k]) : k \in
                {k \in DOMAIN call.args[1] :
                   \/ IsStatus(call.args[1][k], T_qualified)
                   \/ IsStatus(call.args[1][k], T_disqualified)}}
      /\ \A i, j \in DOMAIN rows : rows[i][1] = rows[j][1] => i = j
      /\ \A i \in DOMAIN rows :
           /\ rows[i][2] = Num(Counted(call.args[1], rows[i][1], T_disqualified))
           /\ rows[i][3] = Num(Counted(call.args[1], rows[i][1], T_qualified))
           /\ rows[i][4] = Num(rows[i][2].n + rows[i][3].n)
           /\ IsWholePercentOf(rows[i][5], rows[i][2].n, rows[i][4].n)
      /\ \A i, j \in DOMAIN rows :
           i < j => rows[i][2].n * rows[j][4].n >= rows[j][2].n * rows[i][4].n

\* Agent B with 5 of 13 disqualified is listed before agent A with 3 of 8,
\* both shown as 38%, and A has the earlier records
C14_Witness ==
  /\ call.fn = "agent_breakdown"
  /\ Len(call.result) = 4
  /\ call.result[2] = <<Str(T_B), Num(5), Num(8), Num(13), Str(<<"3","8","%">>)>>
  /\ call.result[3] = <<Str(T_A), Num(3), Num(5), Num(8), Str(<<"3","8","%">>)>>
  /\ AgentOf(call.args[1][1]) = Str(T_A)

\* An agent whose only records have another status has no row
C14_WitnessOtherStatus ==
  /\ call.fn = "agent_breakdown"
  /\ Len(call.result) = 3
  /\ call.result[2][1] = Str(T_B)
  /\ \E k \in DOMAIN call.args[1] : AgentOf(call.args[1][k]) = Str(T_A)

ReasonOf(record) == GetD(record, "DQ Reason", Str(T_Blank))
ReasonCount(recs, reason) ==
  Cardinality({i \in DOMAIN recs :
                 ReasonOf(recs[i]) = reason /\ IsStatus(recs[i], T_disqualified)})

\* C15: the DQ reason breakdown groups only the records of normalized status
\* disqualified, by DQ Reason; the error% of every row, the Grand Total row
\* included, is its count over the number of all records passed in; the rows
\* are in descending order of error%.
C15_DqReasonBreakdown ==
  call.fn = "reports" =>
    \A table \in {call.result.first.dq_reason} :
      /\ {table[i][1] : i \in 2..(Len(table) - 1)}
           = {ReasonOf(call.args[1][k]) : k \in
                {k \in DOMAIN call.args[1] : IsStatus(call.args[1][k], T_disqualified)}}
      /\ \A i, j \in 2..(Len(table) - 1) : table[i][1] = table[j][1] => i = j
      /\ \A i \in 2..(Len(table) - 1) :
           /\ table[i][2] = Num(ReasonCount(call.args[1], table[i][1]))
           /\ IsWholePercentOf(table[i][3], table[i][2].n, Len(call.args[1]))
      /\ Len(table) > 1 =>
           /\ LastRow(table)[2] = Num(CountStatus(call.args[1], T_disqualified))
           /\ IsWholePercentOf(LastRow(table)[3], LastRow(table)[2].n, Len(call.args[1]))
      /\ \A i, j \in 2..(Len(table) - 1) : i < j => table[i][2].n >= table[j][2].n

\* Two disqualified records of two reasons among three records: 33% each and
\* 67% in all, not 50% and 100%
C15_Witness ==
  /\ call.fn = "reports"
  /\ Len(call.args[1]) = 3
  /\ Len(call.result.first.dq_reason) = 4
  /\ call.result.first.dq_reason[2][2] = Num(1)
  /\ call.result.first.dq_reason[2][3] = Str(<<"3","3","%">>)
  /\ LastRow(call.result.first.dq_reason)[3] = Str(<<"6","7","%">>)

\* The tag a record is counted under: '(Blank)' for a missing or blank one
TagText(record, column) ==
  IF column \notin DOMAIN record THEN Str(T_Blank)
  ELSE IF record[column] = None THEN Str(T_Blank)
  ELSE IF strip(str(record[column])) = Empty THEN Str(T_Blank)
  ELSE Str(strip(str(record[column])))
QualifiedAt(recs) == {k \in DOMAIN recs : IsStatus(recs[k], T_qualified)}
TagCount(recs, column, tag) ==
  Cardinality({k \in QualifiedAt(recs) : TagText(recs[k], column) = tag})
FirstMet(recs, column, tag) ==
  CHOOSE k \in QualifiedAt(recs) :
    /\ TagText(recs[k], column) = tag
    /\ \A l \in QualifiedAt(recs) : TagText(recs[l], column) = tag => k <= l
\* table counts the qualified records of recs by the tag of column, the larger
\* count first and of equal counts the tag met first
CountsByTag(table, recs, column) ==
  /\ {table[i][1] : i \in 2..(Len(table) - 1)}
       = {TagText(recs[k], column) : k \in QualifiedAt(recs)}
  /\ \A i, j \in 2..(Len(table) - 1) :
       /\ table[i][1] = table[j][1] => i = j
       /\ i < j =>
            \/ table[i][2].n > table[j][2].n
            \/ /\ table[i][2].n = table[j][2].n
               /\ FirstMet(recs, column, table[i][1]) < FirstMet(recs, column, table[j][1])
  /\ \A i \in 2..(Len(table) - 1) : table[i][2] = Num(TagCount(recs, column, table[i][1]))

\* C16: the segment and the JT persona report count every record of normalized
\* status qualified of all the records, whatever its date (unparseable or
\* outside the selected and month-to-date windows included), a missing or blank
\* tag under '(Blank)'; the rows are in descending order of count, tags of
\* equal count in the order they are first met.
C16_TagReports ==
  call.fn = "generate_and_display_reports" =>
    /\ CountsByTag(call.result.reports["Segment Wise Qualified Count"],
                   call.args[1], "Segment Tagging")
    /\ CountsByTag(call.result.reports["JT Persona Wise Qualified Count"],
                   call.args[1], "JT Persona Tagging")

\* No record is in the month-to-date window, the first one's date does not
\* parse, and the segment met second has the larger count and the first row
C16_Witness ==
  /\ call.fn = "generate_and_display_reports"
  /\ call.result.mtd_records = <<>>
  /\ Len(call.args[1]) = 3
  /\ call.args[1][1]["Audit Date"] = Str(T_na)
  /\ call.result.reports["Segment Wise Qualified Count"]
       = << <<Str(T_SegmentWise), Str(T_QualifiedCount)>>,
            <<Str(T_S1), Num(2)>>, <<Str(T_S2), Num(1)>>, <<Str(T_GrandTotal), Num(3)>> >>

\* Tags of equal count in the order met, the blank and the missing one as '(Blank)'
C16_WitnessTie ==
  /\ call.fn = "generate_and_display_reports"
  /\ Len(call.result.reports["Segment Wise Qualified Count"]) = 4
  /\ Len(call.result.reports["JT Persona Wise Qualified Count"]) = 3
  /\ call.result.reports["Segment Wise Qualified Count"][2] = <<Str(T_S2), Num(1)>>
  /\ call.result.reports["Segment Wise Qualified Count"][3] = <<Str(T_Blank), Num(1)>>
  /\ call.result.reports["JT Persona Wise Qualified Count"][2] = <<Str(T_Blank), Num(2)>>

\* The indices of the records whose date parses to the date
OnDate(recs, column, selected) ==
  {k \in DOMAIN recs :
     /\ column # NoColumn
     /\ Parses(recs[k], column)
     /\ DayOf(recs[k], column) = DayNumber(selected)}

\* C17: filter_records_by_date returns, in their order, exactly the records
\* whose date-column value parses to the date; a record whose date is absent or
\* does not parse is left out without an error, a parse result of None being
\* equal to no date.
C17_FilterByDate ==
  call.fn = "filter_records" =>
    /\ call.result[1].returned = Pick(call.args[1], OnDate(call.args[1], call.args[3], call.args[2]))
    /\ \A i \in DOMAIN call.result[1].returned :
         /\ call.args[3] \in DOMAIN call.result[1].returned[i]
         /\ parse_date(call.result[1].returned[i][call.args[3]]) = call.args[2]

\* Of two records of the date, written in two formats, both are returned in
\* their order
C17_Witness ==
  /\ call.fn = "filter_records"
  /\ Len(call.args[1]) = 2
  /\ call.args[1][1] # call.args[1][2]
  /\ call.result[1].returned = call.args[1]

\* A record without a date, or whose date does not parse, is left out
C17_WitnessLeftOut ==
  /\ call.fn = "filter_records"
  /\ call.args[3] = "Audit Date"
  /\ Len(call.args[1]) = 2
  /\ Len(call.result[1].returned) = 1
  /\ \E k \in 1..2 : ~Parses(call.args[1][k], "Audit Date")

\* C18: filter_records_by_date and filter_records_mtd change neither the
\* records nor the processor (its date column and its parsed dates); what they
\* return is determined by the records, the date column and the selected date,
\* whatever the processor holds from earlier calls; a second call on the same
\* inputs returns what the first returned.
C18_FiltersArePure ==
  call.fn = "filter_records" =>
    /\ \A i \in 1..4 :
         /\ call.result[i].self = Processor(call.args[3], call.args[4])
         /\ call.result[i].records = call.args[1]
    /\ call.result[3].returned = call.result[1].returned
    /\ call.result[4].returned = call.result[2].returned
    /\ call.result[1].returned
         = Pick(call.args[1], OnDate(call.args[1], call.args[3], call.args[2]))
    /\ call.result[2].returned
         = IF call.args[3] = NoColumn THEN <<>>
           ELSE WindowOf(call.args[1], DatesOf(call.args[1], call.args[3]), call.args[2])

\* The processor holds the parsed dates of the records of another file, and
\* both filters return records
C18_Witness ==
  /\ call.fn = "filter_records"
  /\ call.args[4] # <<>>
  /\ call.args[4] # parse_dates_from_records(call.args[1], call.args[3])
  /\ call.result[3].returned # <<>>
  /\ Len(call.result[4].returned) = 2

\* The rows of data of a sheet: its rows with a cell that is not empty, but the
\* first of them, which is the header
RowsOfData(sheet) ==
  LET filled == Cardinality({i \in DOMAIN sheet.rows :
                               \E c \in DOMAIN sheet.rows[i] : sheet.rows[i][c] # None})
  IN IF filled = 0 THEN 0 ELSE filled - 1
IsRecognized(sheet) == strip(lower(sheet.title)) \in {T_qualified, T_disqualified}
RECURSIVE RowsOfSheets(_)
RowsOfSheets(sheets) ==
  IF sheets = <<>> THEN 0
  ELSE (IF IsRecognized(Head(sheets)) THEN RowsOfData(Head(sheets)) ELSE 0)
         + RowsOfSheets(Tail(sheets))
\* The call raises exactly for no recognized sheet or no row of data, and
\* returns as many records as the recognized sheets have rows of data
RaisesForNoData ==
  /\ call.result.raised
       <=> \/ \A n \in DOMAIN call.args[1].worksheets : ~IsRecognized(call.args[1].worksheets[n])
           \/ RowsOfSheets(call.args[1].worksheets) = 0
  /\ ~call.result.raised =>
       /\ call.result.records # <<>>
       /\ Len(call.result.records) = RowsOfSheets(call.args[1].worksheets)

C19_WitnessRaised ==
  /\ call.fn = "load_and_parse_excel"
  /\ call.result.raised
  /\ call.args[1].size <= MAX_FILE_SIZE_MB * 1024 * 1024
  /\ \E n \in DOMAIN call.args[1].worksheets :
       /\ IsRecognized(call.args[1].worksheets[n])
       /\ call.args[1].worksheets[n].rows = <<HeaderRow>>

\* The records of the call that come from the sheet of the type
RecordsFrom(sheet_type) ==
  SelectSeq(call.result.records,
            LAMBDA record : DictGet(record, Str(T_sheet_name)) = Str(sheet_type))
\* The sheet of the workbook of the call that is read as the type
SheetOf(sheet_type) ==
  call.args[1].worksheets[
    CHOOSE n \in DOMAIN call.args[1].worksheets :
      strip(lower(call.args[1].worksheets[n].title)) = lower(sheet_type)]
\* The position in the sheet of its k-th row, after row 1, with a cell that is
\* not empty
PositionOfFilled(sheet, k) ==
  CHOOSE i \in 2..Len(sheet.rows) :
    /\ \E c \in DOMAIN sheet.rows[i] : sheet.rows[i][c] # None
    /\ Cardinality({j \in 2..i : \E c \in DOMAIN sheet.rows[j] : sheet.rows[j][c] # None}) = k
\* Every record has one sheet tag, Qualified or Disqualified, and one row number
OneTagAndNumber ==
  \A i \in DOMAIN call.result.records :
    /\ Cardinality({j \in DOMAIN call.result.records[i] :
                      call.result.records[i][j][1] = Str(T_sheet_name)}) = 1
    /\ Cardinality({j \in DOMAIN call.result.records[i] :
                      call.result.records[i][j][1] = Str(T_row_number)}) = 1
    /\ DictGet(call.result.records[i], Str(T_sheet_name))
         \in {Str(T_Qualified), Str(T_Disqualified)}
    /\ DictGet(call.result.records[i], Str(T_row_number)).n >= 2

\* C20: every parsed record carries one sheet tag, Qualified or Disqualified,
\* and one row number, and the row number is the position of its row in its
\* sheet (the header is row 1, so it is at least 2, and the count starts again
\* in each sheet), also when blank rows lie between the rows of data.  Checked
\* for the sheets whose header is in row 1.
C20_RowNumberIsPosition ==
  (call.fn = "load_and_parse_excel" /\ ~call.result.raised) =>
    /\ OneTagAndNumber
    /\ \A sheet_type \in {T_Qualified, T_Disqualified} :
         \A k \in DOMAIN RecordsFrom(sheet_type) :
           SheetOf(sheet_type).rows[1] = HeaderRow =>
             DictGet(RecordsFrom(sheet_type)[k], Str(T_row_number))
               = Num(PositionOfFilled(SheetOf(sheet_type), k))

\* What the code keeps: the row number is one more than the number of the
\* record among the records of its sheet, blank rows not counted
C20_RowNumberAmongFilled ==
  (call.fn = "load_and_parse_excel" /\ ~call.result.raised) =>
    /\ OneTagAndNumber
    /\ \A sheet_type \in {T_Qualified, T_Disqualified} :
         \A k \in DOMAIN RecordsFrom(sheet_type) :
           DictGet(RecordsFrom(sheet_type)[k], Str(T_row_number)) = Num(k + 1)

\* A sheet with a blank row between its two rows of data, parsed to two records
C20_Witness ==
  /\ call.fn = "load_and_parse_excel"
  /\ ~call.result.raised
  /\ call.args[1].worksheets[1].rows = <<HeaderRow, DataRow, BlankRow, DataRow>>
  /\ IsRecognized(call.args[1].worksheets[1])
  /\ Len(call.result.records) = 2

\* The value clean_data leaves in a key field whose value was blank
BlankMarker(field) == IF field = "Lead Status" THEN Str(Empty) ELSE Str(T_Blank)
\* The trimmed string of a value, title-cased for DQ Reason
Trimmed(field, value) ==
  IF field = "DQ Reason" THEN Str(title(strip(str(value)))) ELSE Str(strip(str(value)))
\* The cleaned record at position i has each key field present and not None:
\* the blank marker where IsBlank(value) of the field's value in the record
\* given, the trimmed string elsewhere
CleanedAs(i, IsBlank(_)) ==
  \A field \in {"Lead Status", "Agent Name", "DQ Reason"} :
    LET value == Get(call.args[1][i], field)
    IN /\ field \in DOMAIN call.result[i]
       /\ call.result[i][field] # None
       /\ call.result[i][field] =
            IF IsBlank(value) THEN BlankMarker(field) ELSE Trimmed(field, value)
BlankOrExactlyDash(value) ==
  value = None \/ strip(str(value)) = Empty \/ value = Str(T_Dash)
BlankOrDashOnceTrimmed(value) ==
  value = None \/ strip(str(value)) \in {Empty, T_Dash}

\* C21: after clean_data every record has 'Lead Status', 'Agent Name' and
\* 'DQ Reason' present and not None: a value that is absent, blank after
\* trimming, or exactly '-' becomes '' for Lead Status and '(Blank)' for the
\* other two; any other value becomes its trimmed string, title-cased for
\* DQ Reason.
C21_CleanedFields ==
  call.fn = "clean_data" =>
    /\ Len(call.result) = Len(call.args[1])
    /\ \A i \in DOMAIN call.result : CleanedAs(i, BlankOrExactlyDash)

\* C21 (amended): the same with "is '-' after trimming" for "exactly '-'": a
\* dash with blanks around it is a blank value as well.
C21_CleanedFieldsTrimmedDash ==
  call.fn = "clean_data" =>
    /\ Len(call.result) = Len(call.args[1])
    /\ \A i \in DOMAIN call.result : CleanedAs(i, BlankOrDashOnceTrimmed)

\* A record without Lead Status, with a dash between blanks for Agent Name and
\* a text with blanks around it for DQ Reason
C21_Witness ==
  /\ call.fn = "clean_data"
  /\ Len(call.args[1]) = 1
  /\ DOMAIN call.args[1][1] = {"Agent Name", "DQ Reason", "Audit Date"}
  /\ call.args[1][1]["Agent Name"] = Str(T_DashInBlanks)
  /\ call.args[1][1]["DQ Reason"] = Str(<<" ">> \o T_email \o <<" ">>)
  /\ call.result[1]["Lead Status"] = Str(Empty)
  /\ call.result[1]["Agent Name"] = Str(T_Blank)
  /\ call.result[1]["DQ Reason"] = Str(title(T_email))

\* The year a text of two or four digits stands for
YearOf(y) == IF Len(y) = 4 THEN DigitsVal(y) ELSE 2000 + DigitsVal(y)
\* A numeric date read day-first where that is a date, else month-first where
\* that is a date, else not at all
DayFirstElseMonthFirst(a, b, y) ==
  IF ValidYMD(YearOf(y), DigitsVal(b), DigitsVal(a))
    THEN Date(YearOf(y), DigitsVal(b), DigitsVal(a))
  ELSE IF ValidYMD(YearOf(y), DigitsVal(a), DigitsVal(b))
    THEN Date(YearOf(y), DigitsVal(a), DigitsVal(b))
  ELSE None
\* The formats that begin with the day and with the month
DayFirstFormats == {k \in DOMAIN date_formats : date_formats[k][1] = "%d"}
MonthFirstFormats == {k \in DOMAIN date_formats : date_formats[k][1] = "%m"}
ParsedTo(text, date) ==
  call.args[1] = Str(text) => call.result = date

\* C22: parse_date returns what the first format, in the declared order, that
\* matches gives, and every day-month-year format comes before every
\* month-day-year format: '06-Nov-25', '06-11-2025', '2025-11-06' and
\* '2025-11-06 00:00:00' are 2025-11-06, '11/06/2025' is 11 June 2025, and a
\* numeric date is read month-first only where the day-first reading is not a
\* date.
C22_FirstFormatDayFirst ==
  call.fn = "parse_date" =>
    /\ \A i \in DayFirstFormats : \A j \in MonthFirstFormats : i < j
    /\ \A t \in {T_Nov06_abbr, T_Nov06_dmy, T_Nov06_iso, T_Nov06_time} :
         ParsedTo(t, Date(2025, 11, 6))
    /\ ParsedTo(T_Jun11_slash, Date(2025, 6, 11))
    /\ \A a \in FieldTexts, b \in FieldTexts, y \in YearTexts, sep \in Separators :
         ParsedTo(NumericDate(a, b, y, sep), DayFirstElseMonthFirst(a, b, y))
    /\ \A k \in DOMAIN date_formats :
         (/\ IsStr(call.args[1])
          /\ strptime_date(call.args[1].s, date_formats[k]) # None
          /\ \A j \in 1..(k - 1) : strptime_date(call.args[1].s, date_formats[j]) = None)
           => call.result = strptime_date(call.args[1].s, date_formats[k])

\* '11/06/2025', where both readings are dates, is 11 June
C22_Witness ==
  /\ call.fn = "parse_date"
  /\ call.args[1] = Str(T_Jun11_slash)
  /\ call.result = Date(2025, 6, 11)

\* '11/25/2025', where only the month-first reading is a date, is 25 November
C22_WitnessMonthFirst ==
  /\ call.fn = "parse_date"
  /\ call.args[1] = Str(NumericDate(<<"1","1">>, <<"2","5">>, <<"2","0","2","5">>, "/"))
  /\ call.result = Date(2025, 11, 25)

\* The date k days after a date: within the month, or from the first day of
\* the next month on
FirstOfNextMonth(date) ==
  IF date.m < 12 THEN Date(date.y, date.m + 1, 1) ELSE Date(date.y + 1, 1, 1)
RECURSIVE PlusDays(_, _)
PlusDays(date, k) ==
  LET left == DaysInMonth(date.y, date.m) - date.d
  IN IF k <= left THEN Date(date.y, date.m, date.d + k)
     ELSE PlusDays(FirstOfNextMonth(date), k - left - 1)
SerialOf(n) == call.args[1] = Str(IntToStr(n))

\* C23: a text of digits n that no format matches is a serial day number:
\* 1900-01-01 plus n-1 days for 1 <= n <= 59 and plus n-2 days for n > 59, so
\* that 61 is 1900-03-01; a serial beyond the calendar gives None.
C23_SerialDays ==
  call.fn = "parse_date" =>
    /\ \A n \in 1..MaxSerial :
         SerialOf(n) =>
           call.result = PlusDays(Date(1900, 1, 1), IF n <= 59 THEN n - 1 ELSE n - 2)
    /\ SerialOf(61) => call.result = Date(1900, 3, 1)
    /\ SerialOf(365) => call.result = Date(1900, 12, 30)
    /\ SerialOf(366) => call.result = Date(1900, 12, 31)
    /\ SerialOf(45000) => call.result = Date(2023, 3, 15)
    /\ SerialOf(2958465) => call.result = Date(9999, 12, 31)
    /\ SerialOf(2958466) => call.result = None
    /\ SerialOf(99999999) => call.result = None

\* The serial 61 is 1 March 1900
C23_Witness ==
  /\ call.fn = "parse_date"
  /\ SerialOf(61)
  /\ call.result = Date(1900, 3, 1)

\* A serial of eight digits is no date
C23_WitnessTooLarge ==
  /\ call.fn = "parse_date"
  /\ SerialOf(99999999)
  /\ call.result = None

\* The headers in a sheet: the cells of its first row with a cell that is not
\* empty, trimmed, and Column_<i> for the empty cell at position i
NameOfCell(cell, i) ==
  IF cell = None THEN Str(T_Column \o IntToStr(i)) ELSE Str(strip(str(cell)))
HeadersIn(sheet) ==
  LET filled == SelectSeq(sheet.rows, LAMBDA row : \E c \in DOMAIN row : row[c] # None)
  IN IF filled = <<>> THEN <<>>
     ELSE [i \in DOMAIN filled[1] |-> NameOfCell(filled[1][i], i)]
\* The headers read from a sheet: none from a sheet of fewer than two rows
HeadersRead(sheet) == IF Len(sheet.rows) < 2 THEN <<>> ELSE HeadersIn(sheet)
HasSheet(sheet_type) ==
  \E n \in DOMAIN call.args[1].worksheets :
    strip(lower(call.args[1].worksheets[n].title)) = lower(sheet_type)
\* The headers whose spelling, whatever its case, did not come before
FirstSpellings(headers) ==
  Pick(headers, {i \in DOMAIN headers :
                   \A j \in 1..(i - 1) : lower(headers[j].s) # lower(headers[i].s)})
\* The returned headers are those of the Qualified sheet, then those of the
\* Disqualified sheet, each spelling once
HeadersAre(HeadersOf(_)) ==
  call.result.headers =
    FirstSpellings((IF HasSheet(T_Qualified) THEN HeadersOf(SheetOf(T_Qualified)) ELSE <<>>)
                   \o (IF HasSheet(T_Disqualified) THEN HeadersOf(SheetOf(T_Disqualified))
                       ELSE <<>>))

\* C24: the header list load_and_parse_excel returns is the headers of the
\* Qualified sheet followed by those of the Disqualified sheet, without the
\* headers that repeat an earlier one in whatever case, in the order first
\* seen; a header cell that is missing at position i is named Column_i.
C24_Headers ==
  (call.fn = "load_and_parse_excel" /\ ~call.result.raised) => HeadersAre(HeadersIn)

\* C24 (amended): the same where a sheet of fewer than two rows, which is not
\* parsed, gives no headers.
C24_HeadersOfParsedSheets ==
  (call.fn = "load_and_parse_excel" /\ ~call.result.raised) => HeadersAre(HeadersRead)

\* 'lead status', 'Agent Name' and an empty cell in the Qualified sheet, an
\* empty cell, 'LEAD STATUS' and 'Lead Status' in the Disqualified sheet that
\* comes first in the workbook
C24_Witness ==
  /\ call.fn = "load_and_parse_excel"
  /\ ~call.result.raised
  /\ Len(call.args[1].worksheets) = 2
  /\ call.args[1].worksheets[1] =
       Worksheet(T_Sheet2, <<<<None, Str(T_LEAD_STATUS), Str(T_LeadStatus)>>, DataRow>>)
  /\ call.args[1].worksheets[2] =
       Worksheet(T_Sheet1, <<<<Str(lower(T_LeadStatus)), Str(T_AgentName), None>>, DataRow>>)
  /\ call.result.headers =
       <<Str(lower(T_LeadStatus)), Str(T_AgentName), Str(T_Column \o <<"3">>),
         Str(T_Column \o <<"1">>)>>

\* A Qualified sheet of its header alone: its headers are not returned
C24_WitnessHeaderAlone ==
  /\ call.fn = "load_and_parse_excel"
  /\ ~call.result.raised
  /\ HasSheet(T_Qualified)
  /\ SheetOf(T_Qualified).rows = <<<<Str(lower(T_LeadStatus)), Str(T_AgentName), None>>>>
  /\ call.result.headers = <<Str(T_LeadStatus), Str(T_Column \o <<"2">>)>>

\* a is b without some of its elements, in the order of b
IsSubSeq(a, b) == \E keep \in SUBSET DOMAIN b : a = Pick(b, keep)
\* The row of counts of a combined summary
SummaryOf(generated) ==
  [mtd_pre_qa |-> generated["Combined QA Report"][2][1].n,
   mtd_post_qa |-> generated["Combined QA Report"][2][2].n,
   pre_qa |-> generated["Combined QA Report"][2][3].n,
   post_qa |-> generated["Combined QA Report"][2][4].n]

\* C28: every record filter_records_by_date returns for a date is a record
\* filter_records_mtd returns for that date, so that in the combined summary
\* PRE QA <= MTD PRE QA, POST QA <= MTD POST QA, POST QA <= PRE QA and
\* MTD POST QA <= MTD PRE QA.
C28_DateWithinMonthToDate ==
  /\ call.fn = "filter_records" =>
       IsSubSeq(call.result[1].returned, call.result[2].returned)
  /\ call.fn = "generate_and_display_reports" =>
       /\ IsSubSeq(call.result.date_records, call.result.mtd_records)
       /\ SummaryOf(call.result.reports).pre_qa = Len(call.result.date_records)
       /\ SummaryOf(call.result.reports).mtd_pre_qa = Len(call.result.mtd_records)
       /\ SummaryOf(call.result.reports).pre_qa <= SummaryOf(call.result.reports).mtd_pre_qa
       /\ SummaryOf(call.result.reports).post_qa <= SummaryOf(call.result.reports).mtd_post_qa
       /\ SummaryOf(call.result.reports).post_qa <= SummaryOf(call.result.reports).pre_qa
       /\ SummaryOf(call.result.reports).mtd_post_qa
            <= SummaryOf(call.result.reports).mtd_pre_qa

\* Records of the selected date among more records of the month to date, some
\* of them not qualified
C28_Witness ==
  /\ call.fn = "generate_and_display_reports"
  /\ SummaryOf(call.result.reports).post_qa = 1
  /\ SummaryOf(call.result.reports).pre_qa = 1
  /\ SummaryOf(call.result.reports).mtd_post_qa = 2
  /\ SummaryOf(call.result.reports).mtd_pre_qa = 3

\* Both filters return records of the same date, written in two formats
C28_WitnessFilters ==
  /\ call.fn = "filter_records"
  /\ Len(call.result[1].returned) = 2
  /\ call.result[1].returned[1] # call.result[1].returned[2]
  /\ call.result[2].returned = call.result[1].returned

\* The records of another status than qualified and disqualified
OtherStatus(recs) ==
  {i \in DOMAIN recs :
     normalize(GetD(recs[i], "Lead Status", Str(Empty))) \notin {T_qualified, T_disqualified}}
\* The combined summary, the agent breakdown and the DQ reason report agree
ReportsAgree(combined, agent, dq_reason, recs) ==
  Len(agent) > 1 =>
    /\ LastRow(agent)[1] = Str(T_GrandTotal)
    /\ LastRow(agent)[3] = combined[2][4]
    /\ LastRow(agent)[2] = IF Len(dq_reason) > 1 THEN LastRow(dq_reason)[2] ELSE Num(0)
    /\ Len(dq_reason) > 1 => LastRow(dq_reason)[1] = Str(T_GrandTotal)
    /\ LastRow(agent)[4].n <= combined[2][3].n
    /\ LastRow(agent)[4] = combined[2][3] <=> OtherStatus(recs) = {}

\* C29: the reports made of the same records of the date agree: where the agent
\* breakdown has a Grand Total row, its Qualified total is POST QA of the
\* combined summary, its Disqualified total is the Grand Total count of the DQ
\* reason report (0 where that report has no row of data), and its Grand Total
\* is at most PRE QA, and equal to it iff no record of the date has a status
\* other than qualified and disqualified.
C29_ReportsAgree ==
  /\ call.fn = "reports" =>
       ReportsAgree(call.result.first.combined, call.result.first.agent,
                    call.result.first.dq_reason, call.args[1])
  /\ call.fn = "generate_and_display_reports" =>
       ReportsAgree(call.result.reports["Combined QA Report"],
                    call.result.reports["Agent Wise Summary"],
                    call.result.reports["Primary Reason Disqualified"],
                    call.result.date_records)

\* A qualified, a disqualified and another record: the totals are 1 and 1 and
\* the Grand Total 2 is less than PRE QA 3
C29_Witness ==
  /\ call.fn = "reports"
  /\ LastRow(call.result.first.agent) = <<Str(T_GrandTotal), Num(1), Num(1), Num(2), Str(<<"5","0","%">>)>>
  /\ LastRow(call.result.first.dq_reason)[2] = Num(1)
  /\ call.result.first.combined[2][3] = Num(3)
  /\ call.result.first.combined[2][4] = Num(1)

\* Qualified records alone: the DQ reason report has no row of data and the
\* Disqualified total is 0
C29_WitnessNoReason ==
  /\ call.fn = "generate_and_display_reports"
  /\ Len(call.result.reports["Primary Reason Disqualified"]) = 1
  /\ Len(call.result.reports["Agent Wise Summary"]) > 1
  /\ LastRow(call.result.reports["Agent Wise Summary"])[2] = Num(0)
  /\ LastRow(call.result.reports["Agent Wise Summary"])[4] = Num(2)

\* The columns of a record whose name matches the required column but for its case
MatchingColumns(record, required) ==
  {k \in DOMAIN record : header_lower(k) = header_lower(required)}
\* "value is None or str(value).strip() == '' or str(value).strip() == '-'"
IsBlankValue(value) ==
  value = None \/ strip(str(value)) = Empty \/ strip(str(value)) = T_Dash

\* C30: where validate_columns accepts the headers, a record whose column
\* matching "Lead Status" but for its case holds a value that is not blank is
\* not cleaned to the empty status, whatever the case of the header in its
\* sheet or in the other sheet.
C30_StatusOfMatchingColumn ==
  (call.fn = "validate_and_clean" /\ ~validate_columns(call.result.headers)) =>
    \A i \in DOMAIN call.result.records :
      \A k \in MatchingColumns(call.result.records[i], "Lead Status") :
        ~IsBlankValue(call.result.records[i][k]) =>
          call.result.cleaned_records[i]["Lead Status"] # Str(Empty)

\* The Qualified sheet spells the column LEAD STATUS: the headers are accepted
\* and validated, and the record's status Qualified is cleaned to the empty
\* status under a key Lead Status of its own
C30_Witness ==
  /\ call.fn = "validate_and_clean"
  /\ ~call.result.raised
  /\ call.result.headers[1] = "LEAD STATUS"
  /\ call.result.records[1]["LEAD STATUS"] = Str(T_Qualified)
  /\ "Lead Status" \notin DOMAIN call.result.records[1]
  /\ call.result.cleaned_records[1]["Lead Status"] = Str(Empty)
  /\ call.result.cleaned_records[1]["LEAD STATUS"] = Str(T_Qualified)

\* The column spelled Lead Status in the Qualified sheet and otherwise in the
\* Disqualified sheet: the list of headers holds the first spelling alone and
\* the disqualified record is cleaned to the empty status
C30_WitnessOtherSheet ==
  /\ call.fn = "validate_and_clean"
  /\ ~call.result.raised
  /\ call.result.headers = <<"Lead Status", "Agent Name", "DQ Reason">>
  /\ "lead status" \in DOMAIN call.result.records[2]
  /\ call.result.records[2]["lead status"] = Str(T_Disqualified)
  /\ call.result.cleaned_records[1]["Lead Status"] = Str(T_Qualified)
  /\ call.result.cleaned_records[2]["Lead Status"] = Str(Empty)

\* A record whose column is spelled Lead Status keeps its status, trimmed
C30_StatusOfExactColumn ==
  call.fn = "validate_and_clean" =>
    \A i \in DOMAIN call.result.records :
      ("Lead Status" \in DOMAIN call.result.records[i]
         /\ ~IsBlankValue(call.result.records[i]["Lead Status"])) =>
        call.result.cleaned_records[i]["Lead Status"]
          = Str(strip(str(call.result.records[i]["Lead Status"])))
====
